---- MODULE Spec2Model ----
(***************************************************************************)
(* The voice commands of the grocery list manager: the parser              *)
(* (src/unnamed/part_009: parseVoiceCommand and the functions it calls),   *)
(* the route that applies a command to the store                           *)
(* (src/app/api/voice-command/route.ts) and the button that records it     *)
(* (src/app/dashboard/components/VoiceInput.tsx).                          *)
(*                                                                         *)
(* A JavaScript string is a sequence of one-character strings.  The        *)
(* regular expressions of the source are sequences of nodes matched by a   *)
(* backtracking matcher with the priorities of the JavaScript engine:      *)
(* leftmost start, greedy repetitions longest first, lazy repetitions      *)
(* shortest first, alternatives in the order written.                      *)
(***************************************************************************)
EXTENDS Integers, Sequences, FiniteSets, TLC

VARIABLES
  transcript,     \* the argument of parseVoiceCommand
  normalized,     \* its local constants, <<>> until assigned
  action,
  extracted,      \* what extractTargetList returned: text (withoutList), targetList
  withoutAction,
  itemTexts,
  command,        \* the ParsedCommand returned
  phrase,         \* the argument of a call of parseItem
  item,           \* the ParsedItem it returned
  summary,        \* what formatCommandSummary returned for command
  tables,         \* the module's tables: ACTION_VERBS, QUANTITY_PATTERNS
                  \* (pattern objects: source, flags, lastIndex) and
                  \* TEXT_TO_NUMBER
  calls,          \* the number of calls of parseVoiceCommand that returned
  returned,       \* what the first call on each transcript returned
  request,        \* the body of a POST to /api/voice-command: transcript, listId
  user,           \* the user supabase.auth.getUser() answers with
  storeError,     \* whether the store answers this request's writes with an error
  groceryLists,   \* the rows of the table grocery_lists
  listItems,      \* the rows of the table list_items
  itemsBefore,    \* the rows of list_items when the request arrived
  targetListId,   \* the local variables of POST
  targetListName,
  index,          \* the position in command.items of the loop of
                  \* toggleItems and removeItems
  matchingItems,  \* its local constant
  listData,       \* the local constant of addItems: what its select answered
  others,         \* the number of writes of other requests that have reached
                  \* the store since this request arrived
  count,          \* updatedCount, deletedCount
  touched,        \* the ids of the rows that the update and delete statements
                  \* of this request have changed or deleted
  result,         \* what addItems, toggleItems or removeItems returned
  response,       \* the response of POST: status and body
  state,          \* the state of VoiceInput: its VoiceState
  heard,          \* its state transcript
  feedback,       \* its state feedback
  recognition,    \* the SpeechRecognition of recognitionRef: the phase of its
                  \* session and whether stop() was called in it
  timeoutRef,     \* the timer of timeoutRef: "null", "pending", or "fired" when
                  \* the ref still holds a timer that has run
  fetches,        \* the sessions whose fetch to /api/voice-command is under way
  resets,         \* the reset timers that are set: session and delay
  session,        \* the number of recognition sessions started
  shown,          \* the session whose handler last set the state
  pc              \* the statement to execute next; "done" after the return,
                  \* "threw" after an exception

vars == <<transcript, normalized, action, extracted, withoutAction, itemTexts,
          command, phrase, item, summary, tables, calls, returned, request, user,
          storeError, groceryLists, listItems, itemsBefore, targetListId,
          targetListName, index, matchingItems, listData, others, count, touched,
          result, response, state, heard, feedback, recognition, timeoutRef, fetches, resets,
          session, shown, pc>>

\* the variables of a series of calls
callVars == <<tables, calls, returned>>

\* the variables of VoiceInput
voiceVars == <<state, heard, feedback, recognition, timeoutRef, fetches,
               resets, session, shown>>

\* the variables of a request to the route
routeVars == <<request, user, storeError, groceryLists, listItems,
               itemsBefore, targetListId, targetListName, index, matchingItems,
               listData, others, count, touched, result, response>>

(***************************************************************************)
(* Characters and the String methods the parser uses.                      *)
(***************************************************************************)
\* A character is a string of one code unit of a JavaScript string.  The
\* code units up to U+00FF are written as themselves; the others, and the
\* grave accent, are named by their JavaScript escape, "\\u2028" for U+2028.
\* A character beyond U+FFFF is two code units, a surrogate pair, and the
\* two names written one after the other name the pair.

\* toLowerCase for the code units it changes to one code unit, each before
\* its lower case (the capital sigma before the sigma that is not final)
LowerCasePairs ==
  <<"A", "a", "B", "b", "C", "c", "D", "d", "E", "e", "F", "f", "G", "g", "H",
    "h", "I", "i", "J", "j", "K", "k", "L", "l", "M", "m", "N", "n", "O", "o",
    "P", "p", "Q", "q", "R", "r", "S", "s", "T", "t", "U", "u", "V", "v", "W",
    "w", "X", "x", "Y", "y", "Z", "z", "À", "à", "Á", "á", "Â", "â", "Ã", "ã",
    "Ä", "ä", "Å", "å", "Æ", "æ", "Ç", "ç", "È", "è", "É", "é", "Ê", "ê", "Ë",
    "ë", "Ì", "ì", "Í", "í", "Î", "î", "Ï", "ï", "Ð", "ð", "Ñ", "ñ", "Ò", "ò",
    "Ó", "ó", "Ô", "ô", "Õ", "õ", "Ö", "ö", "Ø", "ø", "Ù", "ù", "Ú", "ú", "Û",
    "û", "Ü", "ü", "Ý", "ý", "Þ", "þ", "\\u0100", "\\u0101", "\\u0102",
    "\\u0103", "\\u0104", "\\u0105", "\\u0106", "\\u0107", "\\u0108",
    "\\u0109", "\\u010a", "\\u010b", "\\u010c", "\\u010d", "\\u010e",
    "\\u010f", "\\u0110", "\\u0111", "\\u0112", "\\u0113", "\\u0114",
    "\\u0115", "\\u0116", "\\u0117", "\\u0118", "\\u0119", "\\u011a",
    "\\u011b", "\\u011c", "\\u011d", "\\u011e", "\\u011f", "\\u0120",
    "\\u0121", "\\u0122", "\\u0123", "\\u0124", "\\u0125", "\\u0126",
    "\\u0127", "\\u0128", "\\u0129", "\\u012a", "\\u012b", "\\u012c",
    "\\u012d", "\\u012e", "\\u012f", "\\u0132", "\\u0133", "\\u0134",
    "\\u0135", "\\u0136", "\\u0137", "\\u0139", "\\u013a", "\\u013b",
    "\\u013c", "\\u013d", "\\u013e", "\\u013f", "\\u0140", "\\u0141",
    "\\u0142", "\\u0143", "\\u0144", "\\u0145", "\\u0146", "\\u0147",
    "\\u0148", "\\u014a", "\\u014b", "\\u014c", "\\u014d", "\\u014e",
    "\\u014f", "\\u0150", "\\u0151", "\\u0152", "\\u0153", "\\u0154",
    "\\u0155", "\\u0156", "\\u0157", "\\u0158", "\\u0159", "\\u015a",
    "\\u015b", "\\u015c", "\\u015d", "\\u015e", "\\u015f", "\\u0160",
    "\\u0161", "\\u0162", "\\u0163", "\\u0164", "\\u0165", "\\u0166",
    "\\u0167", "\\u0168", "\\u0169", "\\u016a", "\\u016b", "\\u016c",
    "\\u016d", "\\u016e", "\\u016f", "\\u0170", "\\u0171", "\\u0172",
    "\\u0173", "\\u0174", "\\u0175", "\\u0176", "\\u0177", "\\u0178", "ÿ",
    "\\u0179", "\\u017a", "\\u017b", "\\u017c", "\\u017d", "\\u017e",
    "\\u0181", "\\u0253", "\\u0182", "\\u0183", "\\u0184", "\\u0185",
    "\\u0186", "\\u0254", "\\u0187", "\\u0188", "\\u0189", "\\u0256",
    "\\u018a", "\\u0257", "\\u018b", "\\u018c", "\\u018e", "\\u01dd",
    "\\u018f", "\\u0259", "\\u0190", "\\u025b", "\\u0191", "\\u0192",
    "\\u0193", "\\u0260", "\\u0194", "\\u0263", "\\u0196", "\\u0269",
    "\\u0197", "\\u0268", "\\u0198", "\\u0199", "\\u019c", "\\u026f",
    "\\u019d", "\\u0272", "\\u019f", "\\u0275", "\\u01a0", "\\u01a1",
    "\\u01a2", "\\u01a3", "\\u01a4", "\\u01a5", "\\u01a6", "\\u0280",
    "\\u01a7", "\\u01a8", "\\u01a9", "\\u0283", "\\u01ac", "\\u01ad",
    "\\u01ae", "\\u0288", "\\u01af", "\\u01b0", "\\u01b1", "\\u028a",
    "\\u01b2", "\\u028b", "\\u01b3", "\\u01b4", "\\u01b5", "\\u01b6",
    "\\u01b7", "\\u0292", "\\u01b8", "\\u01b9", "\\u01bc", "\\u01bd",
    "\\u01c4", "\\u01c6", "\\u01c5", "\\u01c6", "\\u01c7", "\\u01c9",
    "\\u01c8", "\\u01c9", "\\u01ca", "\\u01cc", "\\u01cb", "\\u01cc",
    "\\u01cd", "\\u01ce", "\\u01cf", "\\u01d0", "\\u01d1", "\\u01d2",
    "\\u01d3", "\\u01d4", "\\u01d5", "\\u01d6", "\\u01d7", "\\u01d8",
    "\\u01d9", "\\u01da", "\\u01db", "\\u01dc", "\\u01de", "\\u01df",
    "\\u01e0", "\\u01e1", "\\u01e2", "\\u01e3", "\\u01e4", "\\u01e5",
    "\\u01e6", "\\u01e7", "\\u01e8", "\\u01e9", "\\u01ea", "\\u01eb",
    "\\u01ec", "\\u01ed", "\\u01ee", "\\u01ef", "\\u01f1", "\\u01f3",
    "\\u01f2", "\\u01f3", "\\u01f4", "\\u01f5", "\\u01f6", "\\u0195",
    "\\u01f7", "\\u01bf", "\\u01f8", "\\u01f9", "\\u01fa", "\\u01fb",
    "\\u01fc", "\\u01fd", "\\u01fe", "\\u01ff", "\\u0200", "\\u0201",
    "\\u0202", "\\u0203", "\\u0204", "\\u0205", "\\u0206", "\\u0207",
    "\\u0208", "\\u0209", "\\u020a", "\\u020b", "\\u020c", "\\u020d",
    "\\u020e", "\\u020f", "\\u0210", "\\u0211", "\\u0212", "\\u0213",
    "\\u0214", "\\u0215", "\\u0216", "\\u0217", "\\u0218", "\\u0219",
    "\\u021a", "\\u021b", "\\u021c", "\\u021d", "\\u021e", "\\u021f",
    "\\u0220", "\\u019e", "\\u0222", "\\u0223", "\\u0224", "\\u0225",
    "\\u0226", "\\u0227", "\\u0228", "\\u0229", "\\u022a", "\\u022b",
    "\\u022c", "\\u022d", "\\u022e", "\\u022f", "\\u0230", "\\u0231",
    "\\u0232", "\\u0233", "\\u023a", "\\u2c65", "\\u023b", "\\u023c",
    "\\u023d", "\\u019a", "\\u023e", "\\u2c66", "\\u0241", "\\u0242",
    "\\u0243", "\\u0180", "\\u0244", "\\u0289", "\\u0245", "\\u028c",
    "\\u0246", "\\u0247", "\\u0248", "\\u0249", "\\u024a", "\\u024b",
    "\\u024c", "\\u024d", "\\u024e", "\\u024f", "\\u0370", "\\u0371",
    "\\u0372", "\\u0373", "\\u0376", "\\u0377", "\\u037f", "\\u03f3",
    "\\u0386", "\\u03ac", "\\u0388", "\\u03ad", "\\u0389", "\\u03ae",
    "\\u038a", "\\u03af", "\\u038c", "\\u03cc", "\\u038e", "\\u03cd",
    "\\u038f", "\\u03ce", "\\u0391", "\\u03b1", "\\u0392", "\\u03b2",
    "\\u0393", "\\u03b3", "\\u0394", "\\u03b4", "\\u0395", "\\u03b5",
    "\\u0396", "\\u03b6", "\\u0397", "\\u03b7", "\\u0398", "\\u03b8",
    "\\u0399", "\\u03b9", "\\u039a", "\\u03ba", "\\u039b", "\\u03bb",
    "\\u039c", "\\u03bc", "\\u039d", "\\u03bd", "\\u039e", "\\u03be",
    "\\u039f", "\\u03bf", "\\u03a0", "\\u03c0", "\\u03a1", "\\u03c1",
    "\\u03a3", "\\u03c3", "\\u03a4", "\\u03c4", "\\u03a5", "\\u03c5",
    "\\u03a6", "\\u03c6", "\\u03a7", "\\u03c7", "\\u03a8", "\\u03c8",
    "\\u03a9", "\\u03c9", "\\u03aa", "\\u03ca", "\\u03ab", "\\u03cb",
    "\\u03cf", "\\u03d7", "\\u03d8", "\\u03d9", "\\u03da", "\\u03db",
    "\\u03dc", "\\u03dd", "\\u03de", "\\u03df", "\\u03e0", "\\u03e1",
    "\\u03e2", "\\u03e3", "\\u03e4", "\\u03e5", "\\u03e6", "\\u03e7",
    "\\u03e8", "\\u03e9", "\\u03ea", "\\u03eb", "\\u03ec", "\\u03ed",
    "\\u03ee", "\\u03ef", "\\u03f4", "\\u03b8", "\\u03f7", "\\u03f8",
    "\\u03f9", "\\u03f2", "\\u03fa", "\\u03fb", "\\u03fd", "\\u037b",
    "\\u03fe", "\\u037c", "\\u03ff", "\\u037d", "\\u0400", "\\u0450",
    "\\u0401", "\\u0451", "\\u0402", "\\u0452", "\\u0403", "\\u0453",
    "\\u0404", "\\u0454", "\\u0405", "\\u0455", "\\u0406", "\\u0456",
    "\\u0407", "\\u0457", "\\u0408", "\\u0458", "\\u0409", "\\u0459",
    "\\u040a", "\\u045a", "\\u040b", "\\u045b", "\\u040c", "\\u045c",
    "\\u040d", "\\u045d", "\\u040e", "\\u045e", "\\u040f", "\\u045f",
    "\\u0410", "\\u0430", "\\u0411", "\\u0431", "\\u0412", "\\u0432",
    "\\u0413", "\\u0433", "\\u0414", "\\u0434", "\\u0415", "\\u0435",
    "\\u0416", "\\u0436", "\\u0417", "\\u0437", "\\u0418", "\\u0438",
    "\\u0419", "\\u0439", "\\u041a", "\\u043a", "\\u041b", "\\u043b",
    "\\u041c", "\\u043c", "\\u041d", "\\u043d", "\\u041e", "\\u043e",
    "\\u041f", "\\u043f", "\\u0420", "\\u0440", "\\u0421", "\\u0441",
    "\\u0422", "\\u0442", "\\u0423", "\\u0443", "\\u0424", "\\u0444",
    "\\u0425", "\\u0445", "\\u0426", "\\u0446", "\\u0427", "\\u0447",
    "\\u0428", "\\u0448", "\\u0429", "\\u0449", "\\u042a", "\\u044a",
    "\\u042b", "\\u044b", "\\u042c", "\\u044c", "\\u042d", "\\u044d",
    "\\u042e", "\\u044e", "\\u042f", "\\u044f", "\\u0460", "\\u0461",
    "\\u0462", "\\u0463", "\\u0464", "\\u0465", "\\u0466", "\\u0467",
    "\\u0468", "\\u0469", "\\u046a", "\\u046b", "\\u046c", "\\u046d",
    "\\u046e", "\\u046f", "\\u0470", "\\u0471", "\\u0472", "\\u0473",
    "\\u0474", "\\u0475", "\\u0476", "\\u0477", "\\u0478", "\\u0479",
    "\\u047a", "\\u047b", "\\u047c", "\\u047d", "\\u047e", "\\u047f",
    "\\u0480", "\\u0481", "\\u048a", "\\u048b", "\\u048c", "\\u048d",
    "\\u048e", "\\u048f", "\\u0490", "\\u0491", "\\u0492", "\\u0493",
    "\\u0494", "\\u0495", "\\u0496", "\\u0497", "\\u0498", "\\u0499",
    "\\u049a", "\\u049b", "\\u049c", "\\u049d", "\\u049e", "\\u049f",
    "\\u04a0", "\\u04a1", "\\u04a2", "\\u04a3", "\\u04a4", "\\u04a5",
    "\\u04a6", "\\u04a7", "\\u04a8", "\\u04a9", "\\u04aa", "\\u04ab",
    "\\u04ac", "\\u04ad", "\\u04ae", "\\u04af", "\\u04b0", "\\u04b1",
    "\\u04b2", "\\u04b3", "\\u04b4", "\\u04b5", "\\u04b6", "\\u04b7",
    "\\u04b8", "\\u04b9", "\\u04ba", "\\u04bb", "\\u04bc", "\\u04bd",
    "\\u04be", "\\u04bf", "\\u04c0", "\\u04cf", "\\u04c1", "\\u04c2",
    "\\u04c3", "\\u04c4", "\\u04c5", "\\u04c6", "\\u04c7", "\\u04c8",
    "\\u04c9", "\\u04ca", "\\u04cb", "\\u04cc", "\\u04cd", "\\u04ce",
    "\\u04d0", "\\u04d1", "\\u04d2", "\\u04d3", "\\u04d4", "\\u04d5",
    "\\u04d6", "\\u04d7", "\\u04d8", "\\u04d9", "\\u04da", "\\u04db",
    "\\u04dc", "\\u04dd", "\\u04de", "\\u04df", "\\u04e0", "\\u04e1",
    "\\u04e2", "\\u04e3", "\\u04e4", "\\u04e5", "\\u04e6", "\\u04e7",
    "\\u04e8", "\\u04e9", "\\u04ea", "\\u04eb", "\\u04ec", "\\u04ed",
    "\\u04ee", "\\u04ef", "\\u04f0", "\\u04f1", "\\u04f2", "\\u04f3",
    "\\u04f4", "\\u04f5", "\\u04f6", "\\u04f7", "\\u04f8", "\\u04f9",
    "\\u04fa", "\\u04fb", "\\u04fc", "\\u04fd", "\\u04fe", "\\u04ff",
    "\\u0500", "\\u0501", "\\u0502", "\\u0503", "\\u0504", "\\u0505",
    "\\u0506", "\\u0507", "\\u0508", "\\u0509", "\\u050a", "\\u050b",
    "\\u050c", "\\u050d", "\\u050e", "\\u050f", "\\u0510", "\\u0511",
    "\\u0512", "\\u0513", "\\u0514", "\\u0515", "\\u0516", "\\u0517",
    "\\u0518", "\\u0519", "\\u051a", "\\u051b", "\\u051c", "\\u051d",
    "\\u051e", "\\u051f", "\\u0520", "\\u0521", "\\u0522", "\\u0523",
    "\\u0524", "\\u0525", "\\u0526", "\\u0527", "\\u0528", "\\u0529",
    "\\u052a", "\\u052b", "\\u052c", "\\u052d", "\\u052e", "\\u052f",
    "\\u0531", "\\u0561", "\\u0532", "\\u0562", "\\u0533", "\\u0563",
    "\\u0534", "\\u0564", "\\u0535", "\\u0565", "\\u0536", "\\u0566",
    "\\u0537", "\\u0567", "\\u0538", "\\u0568", "\\u0539", "\\u0569",
    "\\u053a", "\\u056a", "\\u053b", "\\u056b", "\\u053c", "\\u056c",
    "\\u053d", "\\u056d", "\\u053e", "\\u056e", "\\u053f", "\\u056f",
    "\\u0540", "\\u0570", "\\u0541", "\\u0571", "\\u0542", "\\u0572",
    "\\u0543", "\\u0573", "\\u0544", "\\u0574", "\\u0545", "\\u0575",
    "\\u0546", "\\u0576", "\\u0547", "\\u0577", "\\u0548", "\\u0578",
    "\\u0549", "\\u0579", "\\u054a", "\\u057a", "\\u054b", "\\u057b",
    "\\u054c", "\\u057c", "\\u054d", "\\u057d", "\\u054e", "\\u057e",
    "\\u054f", "\\u057f", "\\u0550", "\\u0580", "\\u0551", "\\u0581",
    "\\u0552", "\\u0582", "\\u0553", "\\u0583", "\\u0554", "\\u0584",
    "\\u0555", "\\u0585", "\\u0556", "\\u0586", "\\u10a0", "\\u2d00",
    "\\u10a1", "\\u2d01", "\\u10a2", "\\u2d02", "\\u10a3", "\\u2d03",
    "\\u10a4", "\\u2d04", "\\u10a5", "\\u2d05", "\\u10a6", "\\u2d06",
    "\\u10a7", "\\u2d07", "\\u10a8", "\\u2d08", "\\u10a9", "\\u2d09",
    "\\u10aa", "\\u2d0a", "\\u10ab", "\\u2d0b", "\\u10ac", "\\u2d0c",
    "\\u10ad", "\\u2d0d", "\\u10ae", "\\u2d0e", "\\u10af", "\\u2d0f",
    "\\u10b0", "\\u2d10", "\\u10b1", "\\u2d11", "\\u10b2", "\\u2d12",
    "\\u10b3", "\\u2d13", "\\u10b4", "\\u2d14", "\\u10b5", "\\u2d15",
    "\\u10b6", "\\u2d16", "\\u10b7", "\\u2d17", "\\u10b8", "\\u2d18",
    "\\u10b9", "\\u2d19", "\\u10ba", "\\u2d1a", "\\u10bb", "\\u2d1b",
    "\\u10bc", "\\u2d1c", "\\u10bd", "\\u2d1d", "\\u10be", "\\u2d1e",
    "\\u10bf", "\\u2d1f", "\\u10c0", "\\u2d20", "\\u10c1", "\\u2d21",
    "\\u10c2", "\\u2d22", "\\u10c3", "\\u2d23", "\\u10c4", "\\u2d24",
    "\\u10c5", "\\u2d25", "\\u10c7", "\\u2d27", "\\u10cd", "\\u2d2d",
    "\\u13a0", "\\uab70", "\\u13a1", "\\uab71", "\\u13a2", "\\uab72",
    "\\u13a3", "\\uab73", "\\u13a4", "\\uab74", "\\u13a5", "\\uab75",
    "\\u13a6", "\\uab76", "\\u13a7", "\\uab77", "\\u13a8", "\\uab78",
    "\\u13a9", "\\uab79", "\\u13aa", "\\uab7a", "\\u13ab", "\\uab7b",
    "\\u13ac", "\\uab7c", "\\u13ad", "\\uab7d", "\\u13ae", "\\uab7e",
    "\\u13af", "\\uab7f", "\\u13b0", "\\uab80", "\\u13b1", "\\uab81",
    "\\u13b2", "\\uab82", "\\u13b3", "\\uab83", "\\u13b4", "\\uab84",
    "\\u13b5", "\\uab85", "\\u13b6", "\\uab86", "\\u13b7", "\\uab87",
    "\\u13b8", "\\uab88", "\\u13b9", "\\uab89", "\\u13ba", "\\uab8a",
    "\\u13bb", "\\uab8b", "\\u13bc", "\\uab8c", "\\u13bd", "\\uab8d",
    "\\u13be", "\\uab8e", "\\u13bf", "\\uab8f", "\\u13c0", "\\uab90",
    "\\u13c1", "\\uab91", "\\u13c2", "\\uab92", "\\u13c3", "\\uab93",
    "\\u13c4", "\\uab94", "\\u13c5", "\\uab95", "\\u13c6", "\\uab96",
    "\\u13c7", "\\uab97", "\\u13c8", "\\uab98", "\\u13c9", "\\uab99",
    "\\u13ca", "\\uab9a", "\\u13cb", "\\uab9b", "\\u13cc", "\\uab9c",
    "\\u13cd", "\\uab9d", "\\u13ce", "\\uab9e", "\\u13cf", "\\uab9f",
    "\\u13d0", "\\uaba0", "\\u13d1", "\\uaba1", "\\u13d2", "\\uaba2",
    "\\u13d3", "\\uaba3", "\\u13d4", "\\uaba4", "\\u13d5", "\\uaba5",
    "\\u13d6", "\\uaba6", "\\u13d7", "\\uaba7", "\\u13d8", "\\uaba8",
    "\\u13d9", "\\uaba9", "\\u13da", "\\uabaa", "\\u13db", "\\uabab",
    "\\u13dc", "\\uabac", "\\u13dd", "\\uabad", "\\u13de", "\\uabae",
    "\\u13df", "\\uabaf", "\\u13e0", "\\uabb0", "\\u13e1", "\\uabb1",
    "\\u13e2", "\\uabb2", "\\u13e3", "\\uabb3", "\\u13e4", "\\uabb4",
    "\\u13e5", "\\uabb5", "\\u13e6", "\\uabb6", "\\u13e7", "\\uabb7",
    "\\u13e8", "\\uabb8", "\\u13e9", "\\uabb9", "\\u13ea", "\\uabba",
    "\\u13eb", "\\uabbb", "\\u13ec", "\\uabbc", "\\u13ed", "\\uabbd",
    "\\u13ee", "\\uabbe", "\\u13ef", "\\uabbf", "\\u13f0", "\\u13f8",
    "\\u13f1", "\\u13f9", "\\u13f2", "\\u13fa", "\\u13f3", "\\u13fb",
    "\\u13f4", "\\u13fc", "\\u13f5", "\\u13fd", "\\u1c89", "\\u1c8a",
    "\\u1c90", "\\u10d0", "\\u1c91", "\\u10d1", "\\u1c92", "\\u10d2",
    "\\u1c93", "\\u10d3", "\\u1c94", "\\u10d4", "\\u1c95", "\\u10d5",
    "\\u1c96", "\\u10d6", "\\u1c97", "\\u10d7", "\\u1c98", "\\u10d8",
    "\\u1c99", "\\u10d9", "\\u1c9a", "\\u10da", "\\u1c9b", "\\u10db",
    "\\u1c9c", "\\u10dc", "\\u1c9d", "\\u10dd", "\\u1c9e", "\\u10de",
    "\\u1c9f", "\\u10df", "\\u1ca0", "\\u10e0", "\\u1ca1", "\\u10e1",
    "\\u1ca2", "\\u10e2", "\\u1ca3", "\\u10e3", "\\u1ca4", "\\u10e4",
    "\\u1ca5", "\\u10e5", "\\u1ca6", "\\u10e6", "\\u1ca7", "\\u10e7",
    "\\u1ca8", "\\u10e8", "\\u1ca9", "\\u10e9", "\\u1caa", "\\u10ea",
    "\\u1cab", "\\u10eb", "\\u1cac", "\\u10ec", "\\u1cad", "\\u10ed",
    "\\u1cae", "\\u10ee", "\\u1caf", "\\u10ef", "\\u1cb0", "\\u10f0",
    "\\u1cb1", "\\u10f1", "\\u1cb2", "\\u10f2", "\\u1cb3", "\\u10f3",
    "\\u1cb4", "\\u10f4", "\\u1cb5", "\\u10f5", "\\u1cb6", "\\u10f6",
    "\\u1cb7", "\\u10f7", "\\u1cb8", "\\u10f8", "\\u1cb9", "\\u10f9",
    "\\u1cba", "\\u10fa", "\\u1cbd", "\\u10fd", "\\u1cbe", "\\u10fe",
    "\\u1cbf", "\\u10ff", "\\u1e00", "\\u1e01", "\\u1e02", "\\u1e03",
    "\\u1e04", "\\u1e05", "\\u1e06", "\\u1e07", "\\u1e08", "\\u1e09",
    "\\u1e0a", "\\u1e0b", "\\u1e0c", "\\u1e0d", "\\u1e0e", "\\u1e0f",
    "\\u1e10", "\\u1e11", "\\u1e12", "\\u1e13", "\\u1e14", "\\u1e15",
    "\\u1e16", "\\u1e17", "\\u1e18", "\\u1e19", "\\u1e1a", "\\u1e1b",
    "\\u1e1c", "\\u1e1d", "\\u1e1e", "\\u1e1f", "\\u1e20", "\\u1e21",
    "\\u1e22", "\\u1e23", "\\u1e24", "\\u1e25", "\\u1e26", "\\u1e27",
    "\\u1e28", "\\u1e29", "\\u1e2a", "\\u1e2b", "\\u1e2c", "\\u1e2d",
    "\\u1e2e", "\\u1e2f", "\\u1e30", "\\u1e31", "\\u1e32", "\\u1e33",
    "\\u1e34", "\\u1e35", "\\u1e36", "\\u1e37", "\\u1e38", "\\u1e39",
    "\\u1e3a", "\\u1e3b", "\\u1e3c", "\\u1e3d", "\\u1e3e", "\\u1e3f",
    "\\u1e40", "\\u1e41", "\\u1e42", "\\u1e43", "\\u1e44", "\\u1e45",
    "\\u1e46", "\\u1e47", "\\u1e48", "\\u1e49", "\\u1e4a", "\\u1e4b",
    "\\u1e4c", "\\u1e4d", "\\u1e4e", "\\u1e4f", "\\u1e50", "\\u1e51",
    "\\u1e52", "\\u1e53", "\\u1e54", "\\u1e55", "\\u1e56", "\\u1e57",
    "\\u1e58", "\\u1e59", "\\u1e5a", "\\u1e5b", "\\u1e5c", "\\u1e5d",
    "\\u1e5e", "\\u1e5f", "\\u1e60", "\\u1e61", "\\u1e62", "\\u1e63",
    "\\u1e64", "\\u1e65", "\\u1e66", "\\u1e67", "\\u1e68", "\\u1e69",
    "\\u1e6a", "\\u1e6b", "\\u1e6c", "\\u1e6d", "\\u1e6e", "\\u1e6f",
    "\\u1e70", "\\u1e71", "\\u1e72", "\\u1e73", "\\u1e74", "\\u1e75",
    "\\u1e76", "\\u1e77", "\\u1e78", "\\u1e79", "\\u1e7a", "\\u1e7b",
    "\\u1e7c", "\\u1e7d", "\\u1e7e", "\\u1e7f", "\\u1e80", "\\u1e81",
    "\\u1e82", "\\u1e83", "\\u1e84", "\\u1e85", "\\u1e86", "\\u1e87",
    "\\u1e88", "\\u1e89", "\\u1e8a", "\\u1e8b", "\\u1e8c", "\\u1e8d",
    "\\u1e8e", "\\u1e8f", "\\u1e90", "\\u1e91", "\\u1e92", "\\u1e93",
    "\\u1e94", "\\u1e95", "\\u1e9e", "ß", "\\u1ea0", "\\u1ea1", "\\u1ea2",
    "\\u1ea3", "\\u1ea4", "\\u1ea5", "\\u1ea6", "\\u1ea7", "\\u1ea8",
    "\\u1ea9", "\\u1eaa", "\\u1eab", "\\u1eac", "\\u1ead", "\\u1eae",
    "\\u1eaf", "\\u1eb0", "\\u1eb1", "\\u1eb2", "\\u1eb3", "\\u1eb4",
    "\\u1eb5", "\\u1eb6", "\\u1eb7", "\\u1eb8", "\\u1eb9", "\\u1eba",
    "\\u1ebb", "\\u1ebc", "\\u1ebd", "\\u1ebe", "\\u1ebf", "\\u1ec0",
    "\\u1ec1", "\\u1ec2", "\\u1ec3", "\\u1ec4", "\\u1ec5", "\\u1ec6",
    "\\u1ec7", "\\u1ec8", "\\u1ec9", "\\u1eca", "\\u1ecb", "\\u1ecc",
    "\\u1ecd", "\\u1ece", "\\u1ecf", "\\u1ed0", "\\u1ed1", "\\u1ed2",
    "\\u1ed3", "\\u1ed4", "\\u1ed5", "\\u1ed6", "\\u1ed7", "\\u1ed8",
    "\\u1ed9", "\\u1eda", "\\u1edb", "\\u1edc", "\\u1edd", "\\u1ede",
    "\\u1edf", "\\u1ee0", "\\u1ee1", "\\u1ee2", "\\u1ee3", "\\u1ee4",
    "\\u1ee5", "\\u1ee6", "\\u1ee7", "\\u1ee8", "\\u1ee9", "\\u1eea",
    "\\u1eeb", "\\u1eec", "\\u1eed", "\\u1eee", "\\u1eef", "\\u1ef0",
    "\\u1ef1", "\\u1ef2", "\\u1ef3", "\\u1ef4", "\\u1ef5", "\\u1ef6",
    "\\u1ef7", "\\u1ef8", "\\u1ef9", "\\u1efa", "\\u1efb", "\\u1efc",
    "\\u1efd", "\\u1efe", "\\u1eff", "\\u1f08", "\\u1f00", "\\u1f09",
    "\\u1f01", "\\u1f0a", "\\u1f02", "\\u1f0b", "\\u1f03", "\\u1f0c",
    "\\u1f04", "\\u1f0d", "\\u1f05", "\\u1f0e", "\\u1f06", "\\u1f0f",
    "\\u1f07", "\\u1f18", "\\u1f10", "\\u1f19", "\\u1f11", "\\u1f1a",
    "\\u1f12", "\\u1f1b", "\\u1f13", "\\u1f1c", "\\u1f14", "\\u1f1d",
    "\\u1f15", "\\u1f28", "\\u1f20", "\\u1f29", "\\u1f21", "\\u1f2a",
    "\\u1f22", "\\u1f2b", "\\u1f23", "\\u1f2c", "\\u1f24", "\\u1f2d",
    "\\u1f25", "\\u1f2e", "\\u1f26", "\\u1f2f", "\\u1f27", "\\u1f38",
    "\\u1f30", "\\u1f39", "\\u1f31", "\\u1f3a", "\\u1f32", "\\u1f3b",
    "\\u1f33", "\\u1f3c", "\\u1f34", "\\u1f3d", "\\u1f35", "\\u1f3e",
    "\\u1f36", "\\u1f3f", "\\u1f37", "\\u1f48", "\\u1f40", "\\u1f49",
    "\\u1f41", "\\u1f4a", "\\u1f42", "\\u1f4b", "\\u1f43", "\\u1f4c",
    "\\u1f44", "\\u1f4d", "\\u1f45", "\\u1f59", "\\u1f51", "\\u1f5b",
    "\\u1f53", "\\u1f5d", "\\u1f55", "\\u1f5f", "\\u1f57", "\\u1f68",
    "\\u1f60", "\\u1f69", "\\u1f61", "\\u1f6a", "\\u1f62", "\\u1f6b",
    "\\u1f63", "\\u1f6c", "\\u1f64", "\\u1f6d", "\\u1f65", "\\u1f6e",
    "\\u1f66", "\\u1f6f", "\\u1f67", "\\u1f88", "\\u1f80", "\\u1f89",
    "\\u1f81", "\\u1f8a", "\\u1f82", "\\u1f8b", "\\u1f83", "\\u1f8c",
    "\\u1f84", "\\u1f8d", "\\u1f85", "\\u1f8e", "\\u1f86", "\\u1f8f",
    "\\u1f87", "\\u1f98", "\\u1f90", "\\u1f99", "\\u1f91", "\\u1f9a",
    "\\u1f92", "\\u1f9b", "\\u1f93", "\\u1f9c", "\\u1f94", "\\u1f9d",
    "\\u1f95", "\\u1f9e", "\\u1f96", "\\u1f9f", "\\u1f97", "\\u1fa8",
    "\\u1fa0", "\\u1fa9", "\\u1fa1", "\\u1faa", "\\u1fa2", "\\u1fab",
    "\\u1fa3", "\\u1fac", "\\u1fa4", "\\u1fad", "\\u1fa5", "\\u1fae",
    "\\u1fa6", "\\u1faf", "\\u1fa7", "\\u1fb8", "\\u1fb0", "\\u1fb9",
    "\\u1fb1", "\\u1fba", "\\u1f70", "\\u1fbb", "\\u1f71", "\\u1fbc",
    "\\u1fb3", "\\u1fc8", "\\u1f72", "\\u1fc9", "\\u1f73", "\\u1fca",
    "\\u1f74", "\\u1fcb", "\\u1f75", "\\u1fcc", "\\u1fc3", "\\u1fd8",
    "\\u1fd0", "\\u1fd9", "\\u1fd1", "\\u1fda", "\\u1f76", "\\u1fdb",
    "\\u1f77", "\\u1fe8", "\\u1fe0", "\\u1fe9", "\\u1fe1", "\\u1fea",
    "\\u1f7a", "\\u1feb", "\\u1f7b", "\\u1fec", "\\u1fe5", "\\u1ff8",
    "\\u1f78", "\\u1ff9", "\\u1f79", "\\u1ffa", "\\u1f7c", "\\u1ffb",
    "\\u1f7d", "\\u1ffc", "\\u1ff3", "\\u2126", "\\u03c9", "\\u212a", "k",
    "\\u212b", "å", "\\u2132", "\\u214e", "\\u2160", "\\u2170", "\\u2161",
    "\\u2171", "\\u2162", "\\u2172", "\\u2163", "\\u2173", "\\u2164",
    "\\u2174", "\\u2165", "\\u2175", "\\u2166", "\\u2176", "\\u2167",
    "\\u2177", "\\u2168", "\\u2178", "\\u2169", "\\u2179", "\\u216a",
    "\\u217a", "\\u216b", "\\u217b", "\\u216c", "\\u217c", "\\u216d",
    "\\u217d", "\\u216e", "\\u217e", "\\u216f", "\\u217f", "\\u2183",
    "\\u2184", "\\u24b6", "\\u24d0", "\\u24b7", "\\u24d1", "\\u24b8",
    "\\u24d2", "\\u24b9", "\\u24d3", "\\u24ba", "\\u24d4", "\\u24bb",
    "\\u24d5", "\\u24bc", "\\u24d6", "\\u24bd", "\\u24d7", "\\u24be",
    "\\u24d8", "\\u24bf", "\\u24d9", "\\u24c0", "\\u24da", "\\u24c1",
    "\\u24db", "\\u24c2", "\\u24dc", "\\u24c3", "\\u24dd", "\\u24c4",
    "\\u24de", "\\u24c5", "\\u24df", "\\u24c6", "\\u24e0", "\\u24c7",
    "\\u24e1", "\\u24c8", "\\u24e2", "\\u24c9", "\\u24e3", "\\u24ca",
    "\\u24e4", "\\u24cb", "\\u24e5", "\\u24cc", "\\u24e6", "\\u24cd",
    "\\u24e7", "\\u24ce", "\\u24e8", "\\u24cf", "\\u24e9", "\\u2c00",
    "\\u2c30", "\\u2c01", "\\u2c31", "\\u2c02", "\\u2c32", "\\u2c03",
    "\\u2c33", "\\u2c04", "\\u2c34", "\\u2c05", "\\u2c35", "\\u2c06",
    "\\u2c36", "\\u2c07", "\\u2c37", "\\u2c08", "\\u2c38", "\\u2c09",
    "\\u2c39", "\\u2c0a", "\\u2c3a", "\\u2c0b", "\\u2c3b", "\\u2c0c",
    "\\u2c3c", "\\u2c0d", "\\u2c3d", "\\u2c0e", "\\u2c3e", "\\u2c0f",
    "\\u2c3f", "\\u2c10", "\\u2c40", "\\u2c11", "\\u2c41", "\\u2c12",
    "\\u2c42", "\\u2c13", "\\u2c43", "\\u2c14", "\\u2c44", "\\u2c15",
    "\\u2c45", "\\u2c16", "\\u2c46", "\\u2c17", "\\u2c47", "\\u2c18",
    "\\u2c48", "\\u2c19", "\\u2c49", "\\u2c1a", "\\u2c4a", "\\u2c1b",
    "\\u2c4b", "\\u2c1c", "\\u2c4c", "\\u2c1d", "\\u2c4d", "\\u2c1e",
    "\\u2c4e", "\\u2c1f", "\\u2c4f", "\\u2c20", "\\u2c50", "\\u2c21",
    "\\u2c51", "\\u2c22", "\\u2c52", "\\u2c23", "\\u2c53", "\\u2c24",
    "\\u2c54", "\\u2c25", "\\u2c55", "\\u2c26", "\\u2c56", "\\u2c27",
    "\\u2c57", "\\u2c28", "\\u2c58", "\\u2c29", "\\u2c59", "\\u2c2a",
    "\\u2c5a", "\\u2c2b", "\\u2c5b", "\\u2c2c", "\\u2c5c", "\\u2c2d",
    "\\u2c5d", "\\u2c2e", "\\u2c5e", "\\u2c2f", "\\u2c5f", "\\u2c60",
    "\\u2c61", "\\u2c62", "\\u026b", "\\u2c63", "\\u1d7d", "\\u2c64",
    "\\u027d", "\\u2c67", "\\u2c68", "\\u2c69", "\\u2c6a", "\\u2c6b",
    "\\u2c6c", "\\u2c6d", "\\u0251", "\\u2c6e", "\\u0271", "\\u2c6f",
    "\\u0250", "\\u2c70", "\\u0252", "\\u2c72", "\\u2c73", "\\u2c75",
    "\\u2c76", "\\u2c7e", "\\u023f", "\\u2c7f", "\\u0240", "\\u2c80",
    "\\u2c81", "\\u2c82", "\\u2c83", "\\u2c84", "\\u2c85", "\\u2c86",
    "\\u2c87", "\\u2c88", "\\u2c89", "\\u2c8a", "\\u2c8b", "\\u2c8c",
    "\\u2c8d", "\\u2c8e", "\\u2c8f", "\\u2c90", "\\u2c91", "\\u2c92",
    "\\u2c93", "\\u2c94", "\\u2c95", "\\u2c96", "\\u2c97", "\\u2c98",
    "\\u2c99", "\\u2c9a", "\\u2c9b", "\\u2c9c", "\\u2c9d", "\\u2c9e",
    "\\u2c9f", "\\u2ca0", "\\u2ca1", "\\u2ca2", "\\u2ca3", "\\u2ca4",
    "\\u2ca5", "\\u2ca6", "\\u2ca7", "\\u2ca8", "\\u2ca9", "\\u2caa",
    "\\u2cab", "\\u2cac", "\\u2cad", "\\u2cae", "\\u2caf", "\\u2cb0",
    "\\u2cb1", "\\u2cb2", "\\u2cb3", "\\u2cb4", "\\u2cb5", "\\u2cb6",
    "\\u2cb7", "\\u2cb8", "\\u2cb9", "\\u2cba", "\\u2cbb", "\\u2cbc",
    "\\u2cbd", "\\u2cbe", "\\u2cbf", "\\u2cc0", "\\u2cc1", "\\u2cc2",
    "\\u2cc3", "\\u2cc4", "\\u2cc5", "\\u2cc6", "\\u2cc7", "\\u2cc8",
    "\\u2cc9", "\\u2cca", "\\u2ccb", "\\u2ccc", "\\u2ccd", "\\u2cce",
    "\\u2ccf", "\\u2cd0", "\\u2cd1", "\\u2cd2", "\\u2cd3", "\\u2cd4",
    "\\u2cd5", "\\u2cd6", "\\u2cd7", "\\u2cd8", "\\u2cd9", "\\u2cda",
    "\\u2cdb", "\\u2cdc", "\\u2cdd", "\\u2cde", "\\u2cdf", "\\u2ce0",
    "\\u2ce1", "\\u2ce2", "\\u2ce3", "\\u2ceb", "\\u2cec", "\\u2ced",
    "\\u2cee", "\\u2cf2", "\\u2cf3", "\\ua640", "\\ua641", "\\ua642",
    "\\ua643", "\\ua644", "\\ua645", "\\ua646", "\\ua647", "\\ua648",
    "\\ua649", "\\ua64a", "\\ua64b", "\\ua64c", "\\ua64d", "\\ua64e",
    "\\ua64f", "\\ua650", "\\ua651", "\\ua652", "\\ua653", "\\ua654",
    "\\ua655", "\\ua656", "\\ua657", "\\ua658", "\\ua659", "\\ua65a",
    "\\ua65b", "\\ua65c", "\\ua65d", "\\ua65e", "\\ua65f", "\\ua660",
    "\\ua661", "\\ua662", "\\ua663", "\\ua664", "\\ua665", "\\ua666",
    "\\ua667", "\\ua668", "\\ua669", "\\ua66a", "\\ua66b", "\\ua66c",
    "\\ua66d", "\\ua680", "\\ua681", "\\ua682", "\\ua683", "\\ua684",
    "\\ua685", "\\ua686", "\\ua687", "\\ua688", "\\ua689", "\\ua68a",
    "\\ua68b", "\\ua68c", "\\ua68d", "\\ua68e", "\\ua68f", "\\ua690",
    "\\ua691", "\\ua692", "\\ua693", "\\ua694", "\\ua695", "\\ua696",
    "\\ua697", "\\ua698", "\\ua699", "\\ua69a", "\\ua69b", "\\ua722",
    "\\ua723", "\\ua724", "\\ua725", "\\ua726", "\\ua727", "\\ua728",
    "\\ua729", "\\ua72a", "\\ua72b", "\\ua72c", "\\ua72d", "\\ua72e",
    "\\ua72f", "\\ua732", "\\ua733", "\\ua734", "\\ua735", "\\ua736",
    "\\ua737", "\\ua738", "\\ua739", "\\ua73a", "\\ua73b", "\\ua73c",
    "\\ua73d", "\\ua73e", "\\ua73f", "\\ua740", "\\ua741", "\\ua742",
    "\\ua743", "\\ua744", "\\ua745", "\\ua746", "\\ua747", "\\ua748",
    "\\ua749", "\\ua74a", "\\ua74b", "\\ua74c", "\\ua74d", "\\ua74e",
    "\\ua74f", "\\ua750", "\\ua751", "\\ua752", "\\ua753", "\\ua754",
    "\\ua755", "\\ua756", "\\ua757", "\\ua758", "\\ua759", "\\ua75a",
    "\\ua75b", "\\ua75c", "\\ua75d", "\\ua75e", "\\ua75f", "\\ua760",
    "\\ua761", "\\ua762", "\\ua763", "\\ua764", "\\ua765", "\\ua766",
    "\\ua767", "\\ua768", "\\ua769", "\\ua76a", "\\ua76b", "\\ua76c",
    "\\ua76d", "\\ua76e", "\\ua76f", "\\ua779", "\\ua77a", "\\ua77b",
    "\\ua77c", "\\ua77d", "\\u1d79", "\\ua77e", "\\ua77f", "\\ua780",
    "\\ua781", "\\ua782", "\\ua783", "\\ua784", "\\ua785", "\\ua786",
    "\\ua787", "\\ua78b", "\\ua78c", "\\ua78d", "\\u0265", "\\ua790",
    "\\ua791", "\\ua792", "\\ua793", "\\ua796", "\\ua797", "\\ua798",
    "\\ua799", "\\ua79a", "\\ua79b", "\\ua79c", "\\ua79d", "\\ua79e",
    "\\ua79f", "\\ua7a0", "\\ua7a1", "\\ua7a2", "\\ua7a3", "\\ua7a4",
    "\\ua7a5", "\\ua7a6", "\\ua7a7", "\\ua7a8", "\\ua7a9", "\\ua7aa",
    "\\u0266", "\\ua7ab", "\\u025c", "\\ua7ac", "\\u0261", "\\ua7ad",
    "\\u026c", "\\ua7ae", "\\u026a", "\\ua7b0", "\\u029e", "\\ua7b1",
    "\\u0287", "\\ua7b2", "\\u029d", "\\ua7b3", "\\uab53", "\\ua7b4",
    "\\ua7b5", "\\ua7b6", "\\ua7b7", "\\ua7b8", "\\ua7b9", "\\ua7ba",
    "\\ua7bb", "\\ua7bc", "\\ua7bd", "\\ua7be", "\\ua7bf", "\\ua7c0",
    "\\ua7c1", "\\ua7c2", "\\ua7c3", "\\ua7c4", "\\ua794", "\\ua7c5",
    "\\u0282", "\\ua7c6", "\\u1d8e", "\\ua7c7", "\\ua7c8", "\\ua7c9",
    "\\ua7ca", "\\ua7cb", "\\u0264", "\\ua7cc", "\\ua7cd", "\\ua7ce",
    "\\ua7cf", "\\ua7d0", "\\ua7d1", "\\ua7d2", "\\ua7d3", "\\ua7d4",
    "\\ua7d5", "\\ua7d6", "\\ua7d7", "\\ua7d8", "\\ua7d9", "\\ua7da",
    "\\ua7db", "\\ua7dc", "\\u019b", "\\ua7f5", "\\ua7f6", "\\uff21",
    "\\uff41", "\\uff22", "\\uff42", "\\uff23", "\\uff43", "\\uff24",
    "\\uff44", "\\uff25", "\\uff45", "\\uff26", "\\uff46", "\\uff27",
    "\\uff47", "\\uff28", "\\uff48", "\\uff29", "\\uff49", "\\uff2a",
    "\\uff4a", "\\uff2b", "\\uff4b", "\\uff2c", "\\uff4c", "\\uff2d",
    "\\uff4d", "\\uff2e", "\\uff4e", "\\uff2f", "\\uff4f", "\\uff30",
    "\\uff50", "\\uff31", "\\uff51", "\\uff32", "\\uff52", "\\uff33",
    "\\uff53", "\\uff34", "\\uff54", "\\uff35", "\\uff55", "\\uff36",
    "\\uff56", "\\uff37", "\\uff57", "\\uff38", "\\uff58", "\\uff39",
    "\\uff59", "\\uff3a", "\\uff5a">>

\* toUpperCase for the code units it changes to one code unit, each before
\* its upper case
UpperCasePairs ==
  <<"a", "A", "b", "B", "c", "C", "d", "D", "e", "E", "f", "F", "g", "G", "h",
    "H", "i", "I", "j", "J", "k", "K", "l", "L", "m", "M", "n", "N", "o", "O",
    "p", "P", "q", "Q", "r", "R", "s", "S", "t", "T", "u", "U", "v", "V", "w",
    "W", "x", "X", "y", "Y", "z", "Z", "µ", "\\u039c", "à", "À", "á", "Á",
    "â", "Â", "ã", "Ã", "ä", "Ä", "å", "Å", "æ", "Æ", "ç", "Ç", "è", "È", "é",
    "É", "ê", "Ê", "ë", "Ë", "ì", "Ì", "í", "Í", "î", "Î", "ï", "Ï", "ð", "Ð",
    "ñ", "Ñ", "ò", "Ò", "ó", "Ó", "ô", "Ô", "õ", "Õ", "ö", "Ö", "ø", "Ø", "ù",
    "Ù", "ú", "Ú", "û", "Û", "ü", "Ü", "ý", "Ý", "þ", "Þ", "ÿ", "\\u0178",
    "\\u0101", "\\u0100", "\\u0103", "\\u0102", "\\u0105", "\\u0104",
    "\\u0107", "\\u0106", "\\u0109", "\\u0108", "\\u010b", "\\u010a",
    "\\u010d", "\\u010c", "\\u010f", "\\u010e", "\\u0111", "\\u0110",
    "\\u0113", "\\u0112", "\\u0115", "\\u0114", "\\u0117", "\\u0116",
    "\\u0119", "\\u0118", "\\u011b", "\\u011a", "\\u011d", "\\u011c",
    "\\u011f", "\\u011e", "\\u0121", "\\u0120", "\\u0123", "\\u0122",
    "\\u0125", "\\u0124", "\\u0127", "\\u0126", "\\u0129", "\\u0128",
    "\\u012b", "\\u012a", "\\u012d", "\\u012c", "\\u012f", "\\u012e",
    "\\u0131", "I", "\\u0133", "\\u0132", "\\u0135", "\\u0134", "\\u0137",
    "\\u0136", "\\u013a", "\\u0139", "\\u013c", "\\u013b", "\\u013e",
    "\\u013d", "\\u0140", "\\u013f", "\\u0142", "\\u0141", "\\u0144",
    "\\u0143", "\\u0146", "\\u0145", "\\u0148", "\\u0147", "\\u014b",
    "\\u014a", "\\u014d", "\\u014c", "\\u014f", "\\u014e", "\\u0151",
    "\\u0150", "\\u0153", "\\u0152", "\\u0155", "\\u0154", "\\u0157",
    "\\u0156", "\\u0159", "\\u0158", "\\u015b", "\\u015a", "\\u015d",
    "\\u015c", "\\u015f", "\\u015e", "\\u0161", "\\u0160", "\\u0163",
    "\\u0162", "\\u0165", "\\u0164", "\\u0167", "\\u0166", "\\u0169",
    "\\u0168", "\\u016b", "\\u016a", "\\u016d", "\\u016c", "\\u016f",
    "\\u016e", "\\u0171", "\\u0170", "\\u0173", "\\u0172", "\\u0175",
    "\\u0174", "\\u0177", "\\u0176", "\\u017a", "\\u0179", "\\u017c",
    "\\u017b", "\\u017e", "\\u017d", "\\u017f", "S", "\\u0180", "\\u0243",
    "\\u0183", "\\u0182", "\\u0185", "\\u0184", "\\u0188", "\\u0187",
    "\\u018c", "\\u018b", "\\u0192", "\\u0191", "\\u0195", "\\u01f6",
    "\\u0199", "\\u0198", "\\u019a", "\\u023d", "\\u019b", "\\ua7dc",
    "\\u019e", "\\u0220", "\\u01a1", "\\u01a0", "\\u01a3", "\\u01a2",
    "\\u01a5", "\\u01a4", "\\u01a8", "\\u01a7", "\\u01ad", "\\u01ac",
    "\\u01b0", "\\u01af", "\\u01b4", "\\u01b3", "\\u01b6", "\\u01b5",
    "\\u01b9", "\\u01b8", "\\u01bd", "\\u01bc", "\\u01bf", "\\u01f7",
    "\\u01c5", "\\u01c4", "\\u01c6", "\\u01c4", "\\u01c8", "\\u01c7",
    "\\u01c9", "\\u01c7", "\\u01cb", "\\u01ca", "\\u01cc", "\\u01ca",
    "\\u01ce", "\\u01cd", "\\u01d0", "\\u01cf", "\\u01d2", "\\u01d1",
    "\\u01d4", "\\u01d3", "\\u01d6", "\\u01d5", "\\u01d8", "\\u01d7",
    "\\u01da", "\\u01d9", "\\u01dc", "\\u01db", "\\u01dd", "\\u018e",
    "\\u01df", "\\u01de", "\\u01e1", "\\u01e0", "\\u01e3", "\\u01e2",
    "\\u01e5", "\\u01e4", "\\u01e7", "\\u01e6", "\\u01e9", "\\u01e8",
    "\\u01eb", "\\u01ea", "\\u01ed", "\\u01ec", "\\u01ef", "\\u01ee",
    "\\u01f2", "\\u01f1", "\\u01f3", "\\u01f1", "\\u01f5", "\\u01f4",
    "\\u01f9", "\\u01f8", "\\u01fb", "\\u01fa", "\\u01fd", "\\u01fc",
    "\\u01ff", "\\u01fe", "\\u0201", "\\u0200", "\\u0203", "\\u0202",
    "\\u0205", "\\u0204", "\\u0207", "\\u0206", "\\u0209", "\\u0208",
    "\\u020b", "\\u020a", "\\u020d", "\\u020c", "\\u020f", "\\u020e",
    "\\u0211", "\\u0210", "\\u0213", "\\u0212", "\\u0215", "\\u0214",
    "\\u0217", "\\u0216", "\\u0219", "\\u0218", "\\u021b", "\\u021a",
    "\\u021d", "\\u021c", "\\u021f", "\\u021e", "\\u0223", "\\u0222",
    "\\u0225", "\\u0224", "\\u0227", "\\u0226", "\\u0229", "\\u0228",
    "\\u022b", "\\u022a", "\\u022d", "\\u022c", "\\u022f", "\\u022e",
    "\\u0231", "\\u0230", "\\u0233", "\\u0232", "\\u023c", "\\u023b",
    "\\u023f", "\\u2c7e", "\\u0240", "\\u2c7f", "\\u0242", "\\u0241",
    "\\u0247", "\\u0246", "\\u0249", "\\u0248", "\\u024b", "\\u024a",
    "\\u024d", "\\u024c", "\\u024f", "\\u024e", "\\u0250", "\\u2c6f",
    "\\u0251", "\\u2c6d", "\\u0252", "\\u2c70", "\\u0253", "\\u0181",
    "\\u0254", "\\u0186", "\\u0256", "\\u0189", "\\u0257", "\\u018a",
    "\\u0259", "\\u018f", "\\u025b", "\\u0190", "\\u025c", "\\ua7ab",
    "\\u0260", "\\u0193", "\\u0261", "\\ua7ac", "\\u0263", "\\u0194",
    "\\u0264", "\\ua7cb", "\\u0265", "\\ua78d", "\\u0266", "\\ua7aa",
    "\\u0268", "\\u0197", "\\u0269", "\\u0196", "\\u026a", "\\ua7ae",
    "\\u026b", "\\u2c62", "\\u026c", "\\ua7ad", "\\u026f", "\\u019c",
    "\\u0271", "\\u2c6e", "\\u0272", "\\u019d", "\\u0275", "\\u019f",
    "\\u027d", "\\u2c64", "\\u0280", "\\u01a6", "\\u0282", "\\ua7c5",
    "\\u0283", "\\u01a9", "\\u0287", "\\ua7b1", "\\u0288", "\\u01ae",
    "\\u0289", "\\u0244", "\\u028a", "\\u01b1", "\\u028b", "\\u01b2",
    "\\u028c", "\\u0245", "\\u0292", "\\u01b7", "\\u029d", "\\ua7b2",
    "\\u029e", "\\ua7b0", "\\u0345", "\\u0399", "\\u0371", "\\u0370",
    "\\u0373", "\\u0372", "\\u0377", "\\u0376", "\\u037b", "\\u03fd",
    "\\u037c", "\\u03fe", "\\u037d", "\\u03ff", "\\u03ac", "\\u0386",
    "\\u03ad", "\\u0388", "\\u03ae", "\\u0389", "\\u03af", "\\u038a",
    "\\u03b1", "\\u0391", "\\u03b2", "\\u0392", "\\u03b3", "\\u0393",
    "\\u03b4", "\\u0394", "\\u03b5", "\\u0395", "\\u03b6", "\\u0396",
    "\\u03b7", "\\u0397", "\\u03b8", "\\u0398", "\\u03b9", "\\u0399",
    "\\u03ba", "\\u039a", "\\u03bb", "\\u039b", "\\u03bc", "\\u039c",
    "\\u03bd", "\\u039d", "\\u03be", "\\u039e", "\\u03bf", "\\u039f",
    "\\u03c0", "\\u03a0", "\\u03c1", "\\u03a1", "\\u03c2", "\\u03a3",
    "\\u03c3", "\\u03a3", "\\u03c4", "\\u03a4", "\\u03c5", "\\u03a5",
    "\\u03c6", "\\u03a6", "\\u03c7", "\\u03a7", "\\u03c8", "\\u03a8",
    "\\u03c9", "\\u03a9", "\\u03ca", "\\u03aa", "\\u03cb", "\\u03ab",
    "\\u03cc", "\\u038c", "\\u03cd", "\\u038e", "\\u03ce", "\\u038f",
    "\\u03d0", "\\u0392", "\\u03d1", "\\u0398", "\\u03d5", "\\u03a6",
    "\\u03d6", "\\u03a0", "\\u03d7", "\\u03cf", "\\u03d9", "\\u03d8",
    "\\u03db", "\\u03da", "\\u03dd", "\\u03dc", "\\u03df", "\\u03de",
    "\\u03e1", "\\u03e0", "\\u03e3", "\\u03e2", "\\u03e5", "\\u03e4",
    "\\u03e7", "\\u03e6", "\\u03e9", "\\u03e8", "\\u03eb", "\\u03ea",
    "\\u03ed", "\\u03ec", "\\u03ef", "\\u03ee", "\\u03f0", "\\u039a",
    "\\u03f1", "\\u03a1", "\\u03f2", "\\u03f9", "\\u03f3", "\\u037f",
    "\\u03f5", "\\u0395", "\\u03f8", "\\u03f7", "\\u03fb", "\\u03fa",
    "\\u0430", "\\u0410", "\\u0431", "\\u0411", "\\u0432", "\\u0412",
    "\\u0433", "\\u0413", "\\u0434", "\\u0414", "\\u0435", "\\u0415",
    "\\u0436", "\\u0416", "\\u0437", "\\u0417", "\\u0438", "\\u0418",
    "\\u0439", "\\u0419", "\\u043a", "\\u041a", "\\u043b", "\\u041b",
    "\\u043c", "\\u041c", "\\u043d", "\\u041d", "\\u043e", "\\u041e",
    "\\u043f", "\\u041f", "\\u0440", "\\u0420", "\\u0441", "\\u0421",
    "\\u0442", "\\u0422", "\\u0443", "\\u0423", "\\u0444", "\\u0424",
    "\\u0445", "\\u0425", "\\u0446", "\\u0426", "\\u0447", "\\u0427",
    "\\u0448", "\\u0428", "\\u0449", "\\u0429", "\\u044a", "\\u042a",
    "\\u044b", "\\u042b", "\\u044c", "\\u042c", "\\u044d", "\\u042d",
    "\\u044e", "\\u042e", "\\u044f", "\\u042f", "\\u0450", "\\u0400",
    "\\u0451", "\\u0401", "\\u0452", "\\u0402", "\\u0453", "\\u0403",
    "\\u0454", "\\u0404", "\\u0455", "\\u0405", "\\u0456", "\\u0406",
    "\\u0457", "\\u0407", "\\u0458", "\\u0408", "\\u0459", "\\u0409",
    "\\u045a", "\\u040a", "\\u045b", "\\u040b", "\\u045c", "\\u040c",
    "\\u045d", "\\u040d", "\\u045e", "\\u040e", "\\u045f", "\\u040f",
    "\\u0461", "\\u0460", "\\u0463", "\\u0462", "\\u0465", "\\u0464",
    "\\u0467", "\\u0466", "\\u0469", "\\u0468", "\\u046b", "\\u046a",
    "\\u046d", "\\u046c", "\\u046f", "\\u046e", "\\u0471", "\\u0470",
    "\\u0473", "\\u0472", "\\u0475", "\\u0474", "\\u0477", "\\u0476",
    "\\u0479", "\\u0478", "\\u047b", "\\u047a", "\\u047d", "\\u047c",
    "\\u047f", "\\u047e", "\\u0481", "\\u0480", "\\u048b", "\\u048a",
    "\\u048d", "\\u048c", "\\u048f", "\\u048e", "\\u0491", "\\u0490",
    "\\u0493", "\\u0492", "\\u0495", "\\u0494", "\\u0497", "\\u0496",
    "\\u0499", "\\u0498", "\\u049b", "\\u049a", "\\u049d", "\\u049c",
    "\\u049f", "\\u049e", "\\u04a1", "\\u04a0", "\\u04a3", "\\u04a2",
    "\\u04a5", "\\u04a4", "\\u04a7", "\\u04a6", "\\u04a9", "\\u04a8",
    "\\u04ab", "\\u04aa", "\\u04ad", "\\u04ac", "\\u04af", "\\u04ae",
    "\\u04b1", "\\u04b0", "\\u04b3", "\\u04b2", "\\u04b5", "\\u04b4",
    "\\u04b7", "\\u04b6", "\\u04b9", "\\u04b8", "\\u04bb", "\\u04ba",
    "\\u04bd", "\\u04bc", "\\u04bf", "\\u04be", "\\u04c2", "\\u04c1",
    "\\u04c4", "\\u04c3", "\\u04c6", "\\u04c5", "\\u04c8", "\\u04c7",
    "\\u04ca", "\\u04c9", "\\u04cc", "\\u04cb", "\\u04ce", "\\u04cd",
    "\\u04cf", "\\u04c0", "\\u04d1", "\\u04d0", "\\u04d3", "\\u04d2",
    "\\u04d5", "\\u04d4", "\\u04d7", "\\u04d6", "\\u04d9", "\\u04d8",
    "\\u04db", "\\u04da", "\\u04dd", "\\u04dc", "\\u04df", "\\u04de",
    "\\u04e1", "\\u04e0", "\\u04e3", "\\u04e2", "\\u04e5", "\\u04e4",
    "\\u04e7", "\\u04e6", "\\u04e9", "\\u04e8", "\\u04eb", "\\u04ea",
    "\\u04ed", "\\u04ec", "\\u04ef", "\\u04ee", "\\u04f1", "\\u04f0",
    "\\u04f3", "\\u04f2", "\\u04f5", "\\u04f4", "\\u04f7", "\\u04f6",
    "\\u04f9", "\\u04f8", "\\u04fb", "\\u04fa", "\\u04fd", "\\u04fc",
    "\\u04ff", "\\u04fe", "\\u0501", "\\u0500", "\\u0503", "\\u0502",
    "\\u0505", "\\u0504", "\\u0507", "\\u0506", "\\u0509", "\\u0508",
    "\\u050b", "\\u050a", "\\u050d", "\\u050c", "\\u050f", "\\u050e",
    "\\u0511", "\\u0510", "\\u0513", "\\u0512", "\\u0515", "\\u0514",
    "\\u0517", "\\u0516", "\\u0519", "\\u0518", "\\u051b", "\\u051a",
    "\\u051d", "\\u051c", "\\u051f", "\\u051e", "\\u0521", "\\u0520",
    "\\u0523", "\\u0522", "\\u0525", "\\u0524", "\\u0527", "\\u0526",
    "\\u0529", "\\u0528", "\\u052b", "\\u052a", "\\u052d", "\\u052c",
    "\\u052f", "\\u052e", "\\u0561", "\\u0531", "\\u0562", "\\u0532",
    "\\u0563", "\\u0533", "\\u0564", "\\u0534", "\\u0565", "\\u0535",
    "\\u0566", "\\u0536", "\\u0567", "\\u0537", "\\u0568", "\\u0538",
    "\\u0569", "\\u0539", "\\u056a", "\\u053a", "\\u056b", "\\u053b",
    "\\u056c", "\\u053c", "\\u056d", "\\u053d", "\\u056e", "\\u053e",
    "\\u056f", "\\u053f", "\\u0570", "\\u0540", "\\u0571", "\\u0541",
    "\\u0572", "\\u0542", "\\u0573", "\\u0543", "\\u0574", "\\u0544",
    "\\u0575", "\\u0545", "\\u0576", "\\u0546", "\\u0577", "\\u0547",
    "\\u0578", "\\u0548", "\\u0579", "\\u0549", "\\u057a", "\\u054a",
    "\\u057b", "\\u054b", "\\u057c", "\\u054c", "\\u057d", "\\u054d",
    "\\u057e", "\\u054e", "\\u057f", "\\u054f", "\\u0580", "\\u0550",
    "\\u0581", "\\u0551", "\\u0582", "\\u0552", "\\u0583", "\\u0553",
    "\\u0584", "\\u0554", "\\u0585", "\\u0555", "\\u0586", "\\u0556",
    "\\u10d0", "\\u1c90", "\\u10d1", "\\u1c91", "\\u10d2", "\\u1c92",
    "\\u10d3", "\\u1c93", "\\u10d4", "\\u1c94", "\\u10d5", "\\u1c95",
    "\\u10d6", "\\u1c96", "\\u10d7", "\\u1c97", "\\u10d8", "\\u1c98",
    "\\u10d9", "\\u1c99", "\\u10da", "\\u1c9a", "\\u10db", "\\u1c9b",
    "\\u10dc", "\\u1c9c", "\\u10dd", "\\u1c9d", "\\u10de", "\\u1c9e",
    "\\u10df", "\\u1c9f", "\\u10e0", "\\u1ca0", "\\u10e1", "\\u1ca1",
    "\\u10e2", "\\u1ca2", "\\u10e3", "\\u1ca3", "\\u10e4", "\\u1ca4",
    "\\u10e5", "\\u1ca5", "\\u10e6", "\\u1ca6", "\\u10e7", "\\u1ca7",
    "\\u10e8", "\\u1ca8", "\\u10e9", "\\u1ca9", "\\u10ea", "\\u1caa",
    "\\u10eb", "\\u1cab", "\\u10ec", "\\u1cac", "\\u10ed", "\\u1cad",
    "\\u10ee", "\\u1cae", "\\u10ef", "\\u1caf", "\\u10f0", "\\u1cb0",
    "\\u10f1", "\\u1cb1", "\\u10f2", "\\u1cb2", "\\u10f3", "\\u1cb3",
    "\\u10f4", "\\u1cb4", "\\u10f5", "\\u1cb5", "\\u10f6", "\\u1cb6",
    "\\u10f7", "\\u1cb7", "\\u10f8", "\\u1cb8", "\\u10f9", "\\u1cb9",
    "\\u10fa", "\\u1cba", "\\u10fd", "\\u1cbd", "\\u10fe", "\\u1cbe",
    "\\u10ff", "\\u1cbf", "\\u13f8", "\\u13f0", "\\u13f9", "\\u13f1",
    "\\u13fa", "\\u13f2", "\\u13fb", "\\u13f3", "\\u13fc", "\\u13f4",
    "\\u13fd", "\\u13f5", "\\u1c80", "\\u0412", "\\u1c81", "\\u0414",
    "\\u1c82", "\\u041e", "\\u1c83", "\\u0421", "\\u1c84", "\\u0422",
    "\\u1c85", "\\u0422", "\\u1c86", "\\u042a", "\\u1c87", "\\u0462",
    "\\u1c88", "\\ua64a", "\\u1c8a", "\\u1c89", "\\u1d79", "\\ua77d",
    "\\u1d7d", "\\u2c63", "\\u1d8e", "\\ua7c6", "\\u1e01", "\\u1e00",
    "\\u1e03", "\\u1e02", "\\u1e05", "\\u1e04", "\\u1e07", "\\u1e06",
    "\\u1e09", "\\u1e08", "\\u1e0b", "\\u1e0a", "\\u1e0d", "\\u1e0c",
    "\\u1e0f", "\\u1e0e", "\\u1e11", "\\u1e10", "\\u1e13", "\\u1e12",
    "\\u1e15", "\\u1e14", "\\u1e17", "\\u1e16", "\\u1e19", "\\u1e18",
    "\\u1e1b", "\\u1e1a", "\\u1e1d", "\\u1e1c", "\\u1e1f", "\\u1e1e",
    "\\u1e21", "\\u1e20", "\\u1e23", "\\u1e22", "\\u1e25", "\\u1e24",
    "\\u1e27", "\\u1e26", "\\u1e29", "\\u1e28", "\\u1e2b", "\\u1e2a",
    "\\u1e2d", "\\u1e2c", "\\u1e2f", "\\u1e2e", "\\u1e31", "\\u1e30",
    "\\u1e33", "\\u1e32", "\\u1e35", "\\u1e34", "\\u1e37", "\\u1e36",
    "\\u1e39", "\\u1e38", "\\u1e3b", "\\u1e3a", "\\u1e3d", "\\u1e3c",
    "\\u1e3f", "\\u1e3e", "\\u1e41", "\\u1e40", "\\u1e43", "\\u1e42",
    "\\u1e45", "\\u1e44", "\\u1e47", "\\u1e46", "\\u1e49", "\\u1e48",
    "\\u1e4b", "\\u1e4a", "\\u1e4d", "\\u1e4c", "\\u1e4f", "\\u1e4e",
    "\\u1e51", "\\u1e50", "\\u1e53", "\\u1e52", "\\u1e55", "\\u1e54",
    "\\u1e57", "\\u1e56", "\\u1e59", "\\u1e58", "\\u1e5b", "\\u1e5a",
    "\\u1e5d", "\\u1e5c", "\\u1e5f", "\\u1e5e", "\\u1e61", "\\u1e60",
    "\\u1e63", "\\u1e62", "\\u1e65", "\\u1e64", "\\u1e67", "\\u1e66",
    "\\u1e69", "\\u1e68", "\\u1e6b", "\\u1e6a", "\\u1e6d", "\\u1e6c",
    "\\u1e6f", "\\u1e6e", "\\u1e71", "\\u1e70", "\\u1e73", "\\u1e72",
    "\\u1e75", "\\u1e74", "\\u1e77", "\\u1e76", "\\u1e79", "\\u1e78",
    "\\u1e7b", "\\u1e7a", "\\u1e7d", "\\u1e7c", "\\u1e7f", "\\u1e7e",
    "\\u1e81", "\\u1e80", "\\u1e83", "\\u1e82", "\\u1e85", "\\u1e84",
    "\\u1e87", "\\u1e86", "\\u1e89", "\\u1e88", "\\u1e8b", "\\u1e8a",
    "\\u1e8d", "\\u1e8c", "\\u1e8f", "\\u1e8e", "\\u1e91", "\\u1e90",
    "\\u1e93", "\\u1e92", "\\u1e95", "\\u1e94", "\\u1e9b", "\\u1e60",
    "\\u1ea1", "\\u1ea0", "\\u1ea3", "\\u1ea2", "\\u1ea5", "\\u1ea4",
    "\\u1ea7", "\\u1ea6", "\\u1ea9", "\\u1ea8", "\\u1eab", "\\u1eaa",
    "\\u1ead", "\\u1eac", "\\u1eaf", "\\u1eae", "\\u1eb1", "\\u1eb0",
    "\\u1eb3", "\\u1eb2", "\\u1eb5", "\\u1eb4", "\\u1eb7", "\\u1eb6",
    "\\u1eb9", "\\u1eb8", "\\u1ebb", "\\u1eba", "\\u1ebd", "\\u1ebc",
    "\\u1ebf", "\\u1ebe", "\\u1ec1", "\\u1ec0", "\\u1ec3", "\\u1ec2",
    "\\u1ec5", "\\u1ec4", "\\u1ec7", "\\u1ec6", "\\u1ec9", "\\u1ec8",
    "\\u1ecb", "\\u1eca", "\\u1ecd", "\\u1ecc", "\\u1ecf", "\\u1ece",
    "\\u1ed1", "\\u1ed0", "\\u1ed3", "\\u1ed2", "\\u1ed5", "\\u1ed4",
    "\\u1ed7", "\\u1ed6", "\\u1ed9", "\\u1ed8", "\\u1edb", "\\u1eda",
    "\\u1edd", "\\u1edc", "\\u1edf", "\\u1ede", "\\u1ee1", "\\u1ee0",
    "\\u1ee3", "\\u1ee2", "\\u1ee5", "\\u1ee4", "\\u1ee7", "\\u1ee6",
    "\\u1ee9", "\\u1ee8", "\\u1eeb", "\\u1eea", "\\u1eed", "\\u1eec",
    "\\u1eef", "\\u1eee", "\\u1ef1", "\\u1ef0", "\\u1ef3", "\\u1ef2",
    "\\u1ef5", "\\u1ef4", "\\u1ef7", "\\u1ef6", "\\u1ef9", "\\u1ef8",
    "\\u1efb", "\\u1efa", "\\u1efd", "\\u1efc", "\\u1eff", "\\u1efe",
    "\\u1f00", "\\u1f08", "\\u1f01", "\\u1f09", "\\u1f02", "\\u1f0a",
    "\\u1f03", "\\u1f0b", "\\u1f04", "\\u1f0c", "\\u1f05", "\\u1f0d",
    "\\u1f06", "\\u1f0e", "\\u1f07", "\\u1f0f", "\\u1f10", "\\u1f18",
    "\\u1f11", "\\u1f19", "\\u1f12", "\\u1f1a", "\\u1f13", "\\u1f1b",
    "\\u1f14", "\\u1f1c", "\\u1f15", "\\u1f1d", "\\u1f20", "\\u1f28",
    "\\u1f21", "\\u1f29", "\\u1f22", "\\u1f2a", "\\u1f23", "\\u1f2b",
    "\\u1f24", "\\u1f2c", "\\u1f25", "\\u1f2d", "\\u1f26", "\\u1f2e",
    "\\u1f27", "\\u1f2f", "\\u1f30", "\\u1f38", "\\u1f31", "\\u1f39",
    "\\u1f32", "\\u1f3a", "\\u1f33", "\\u1f3b", "\\u1f34", "\\u1f3c",
    "\\u1f35", "\\u1f3d", "\\u1f36", "\\u1f3e", "\\u1f37", "\\u1f3f",
    "\\u1f40", "\\u1f48", "\\u1f41", "\\u1f49", "\\u1f42", "\\u1f4a",
    "\\u1f43", "\\u1f4b", "\\u1f44", "\\u1f4c", "\\u1f45", "\\u1f4d",
    "\\u1f51", "\\u1f59", "\\u1f53", "\\u1f5b", "\\u1f55", "\\u1f5d",
    "\\u1f57", "\\u1f5f", "\\u1f60", "\\u1f68", "\\u1f61", "\\u1f69",
    "\\u1f62", "\\u1f6a", "\\u1f63", "\\u1f6b", "\\u1f64", "\\u1f6c",
    "\\u1f65", "\\u1f6d", "\\u1f66", "\\u1f6e", "\\u1f67", "\\u1f6f",
    "\\u1f70", "\\u1fba", "\\u1f71", "\\u1fbb", "\\u1f72", "\\u1fc8",
    "\\u1f73", "\\u1fc9", "\\u1f74", "\\u1fca", "\\u1f75", "\\u1fcb",
    "\\u1f76", "\\u1fda", "\\u1f77", "\\u1fdb", "\\u1f78", "\\u1ff8",
    "\\u1f79", "\\u1ff9", "\\u1f7a", "\\u1fea", "\\u1f7b", "\\u1feb",
    "\\u1f7c", "\\u1ffa", "\\u1f7d", "\\u1ffb", "\\u1fb0", "\\u1fb8",
    "\\u1fb1", "\\u1fb9", "\\u1fbe", "\\u0399", "\\u1fd0", "\\u1fd8",
    "\\u1fd1", "\\u1fd9", "\\u1fe0", "\\u1fe8", "\\u1fe1", "\\u1fe9",
    "\\u1fe5", "\\u1fec", "\\u214e", "\\u2132", "\\u2170", "\\u2160",
    "\\u2171", "\\u2161", "\\u2172", "\\u2162", "\\u2173", "\\u2163",
    "\\u2174", "\\u2164", "\\u2175", "\\u2165", "\\u2176", "\\u2166",
    "\\u2177", "\\u2167", "\\u2178", "\\u2168", "\\u2179", "\\u2169",
    "\\u217a", "\\u216a", "\\u217b", "\\u216b", "\\u217c", "\\u216c",
    "\\u217d", "\\u216d", "\\u217e", "\\u216e", "\\u217f", "\\u216f",
    "\\u2184", "\\u2183", "\\u24d0", "\\u24b6", "\\u24d1", "\\u24b7",
    "\\u24d2", "\\u24b8", "\\u24d3", "\\u24b9", "\\u24d4", "\\u24ba",
    "\\u24d5", "\\u24bb", "\\u24d6", "\\u24bc", "\\u24d7", "\\u24bd",
    "\\u24d8", "\\u24be", "\\u24d9", "\\u24bf", "\\u24da", "\\u24c0",
    "\\u24db", "\\u24c1", "\\u24dc", "\\u24c2", "\\u24dd", "\\u24c3",
    "\\u24de", "\\u24c4", "\\u24df", "\\u24c5", "\\u24e0", "\\u24c6",
    "\\u24e1", "\\u24c7", "\\u24e2", "\\u24c8", "\\u24e3", "\\u24c9",
    "\\u24e4", "\\u24ca", "\\u24e5", "\\u24cb", "\\u24e6", "\\u24cc",
    "\\u24e7", "\\u24cd", "\\u24e8", "\\u24ce", "\\u24e9", "\\u24cf",
    "\\u2c30", "\\u2c00", "\\u2c31", "\\u2c01", "\\u2c32", "\\u2c02",
    "\\u2c33", "\\u2c03", "\\u2c34", "\\u2c04", "\\u2c35", "\\u2c05",
    "\\u2c36", "\\u2c06", "\\u2c37", "\\u2c07", "\\u2c38", "\\u2c08",
    "\\u2c39", "\\u2c09", "\\u2c3a", "\\u2c0a", "\\u2c3b", "\\u2c0b",
    "\\u2c3c", "\\u2c0c", "\\u2c3d", "\\u2c0d", "\\u2c3e", "\\u2c0e",
    "\\u2c3f", "\\u2c0f", "\\u2c40", "\\u2c10", "\\u2c41", "\\u2c11",
    "\\u2c42", "\\u2c12", "\\u2c43", "\\u2c13", "\\u2c44", "\\u2c14",
    "\\u2c45", "\\u2c15", "\\u2c46", "\\u2c16", "\\u2c47", "\\u2c17",
    "\\u2c48", "\\u2c18", "\\u2c49", "\\u2c19", "\\u2c4a", "\\u2c1a",
    "\\u2c4b", "\\u2c1b", "\\u2c4c", "\\u2c1c", "\\u2c4d", "\\u2c1d",
    "\\u2c4e", "\\u2c1e", "\\u2c4f", "\\u2c1f", "\\u2c50", "\\u2c20",
    "\\u2c51", "\\u2c21", "\\u2c52", "\\u2c22", "\\u2c53", "\\u2c23",
    "\\u2c54", "\\u2c24", "\\u2c55", "\\u2c25", "\\u2c56", "\\u2c26",
    "\\u2c57", "\\u2c27", "\\u2c58", "\\u2c28", "\\u2c59", "\\u2c29",
    "\\u2c5a", "\\u2c2a", "\\u2c5b", "\\u2c2b", "\\u2c5c", "\\u2c2c",
    "\\u2c5d", "\\u2c2d", "\\u2c5e", "\\u2c2e", "\\u2c5f", "\\u2c2f",
    "\\u2c61", "\\u2c60", "\\u2c65", "\\u023a", "\\u2c66", "\\u023e",
    "\\u2c68", "\\u2c67", "\\u2c6a", "\\u2c69", "\\u2c6c", "\\u2c6b",
    "\\u2c73", "\\u2c72", "\\u2c76", "\\u2c75", "\\u2c81", "\\u2c80",
    "\\u2c83", "\\u2c82", "\\u2c85", "\\u2c84", "\\u2c87", "\\u2c86",
    "\\u2c89", "\\u2c88", "\\u2c8b", "\\u2c8a", "\\u2c8d", "\\u2c8c",
    "\\u2c8f", "\\u2c8e", "\\u2c91", "\\u2c90", "\\u2c93", "\\u2c92",
    "\\u2c95", "\\u2c94", "\\u2c97", "\\u2c96", "\\u2c99", "\\u2c98",
    "\\u2c9b", "\\u2c9a", "\\u2c9d", "\\u2c9c", "\\u2c9f", "\\u2c9e",
    "\\u2ca1", "\\u2ca0", "\\u2ca3", "\\u2ca2", "\\u2ca5", "\\u2ca4",
    "\\u2ca7", "\\u2ca6", "\\u2ca9", "\\u2ca8", "\\u2cab", "\\u2caa",
    "\\u2cad", "\\u2cac", "\\u2caf", "\\u2cae", "\\u2cb1", "\\u2cb0",
    "\\u2cb3", "\\u2cb2", "\\u2cb5", "\\u2cb4", "\\u2cb7", "\\u2cb6",
    "\\u2cb9", "\\u2cb8", "\\u2cbb", "\\u2cba", "\\u2cbd", "\\u2cbc",
    "\\u2cbf", "\\u2cbe", "\\u2cc1", "\\u2cc0", "\\u2cc3", "\\u2cc2",
    "\\u2cc5", "\\u2cc4", "\\u2cc7", "\\u2cc6", "\\u2cc9", "\\u2cc8",
    "\\u2ccb", "\\u2cca", "\\u2ccd", "\\u2ccc", "\\u2ccf", "\\u2cce",
    "\\u2cd1", "\\u2cd0", "\\u2cd3", "\\u2cd2", "\\u2cd5", "\\u2cd4",
    "\\u2cd7", "\\u2cd6", "\\u2cd9", "\\u2cd8", "\\u2cdb", "\\u2cda",
    "\\u2cdd", "\\u2cdc", "\\u2cdf", "\\u2cde", "\\u2ce1", "\\u2ce0",
    "\\u2ce3", "\\u2ce2", "\\u2cec", "\\u2ceb", "\\u2cee", "\\u2ced",
    "\\u2cf3", "\\u2cf2", "\\u2d00", "\\u10a0", "\\u2d01", "\\u10a1",
    "\\u2d02", "\\u10a2", "\\u2d03", "\\u10a3", "\\u2d04", "\\u10a4",
    "\\u2d05", "\\u10a5", "\\u2d06", "\\u10a6", "\\u2d07", "\\u10a7",
    "\\u2d08", "\\u10a8", "\\u2d09", "\\u10a9", "\\u2d0a", "\\u10aa",
    "\\u2d0b", "\\u10ab", "\\u2d0c", "\\u10ac", "\\u2d0d", "\\u10ad",
    "\\u2d0e", "\\u10ae", "\\u2d0f", "\\u10af", "\\u2d10", "\\u10b0",
    "\\u2d11", "\\u10b1", "\\u2d12", "\\u10b2", "\\u2d13", "\\u10b3",
    "\\u2d14", "\\u10b4", "\\u2d15", "\\u10b5", "\\u2d16", "\\u10b6",
    "\\u2d17", "\\u10b7", "\\u2d18", "\\u10b8", "\\u2d19", "\\u10b9",
    "\\u2d1a", "\\u10ba", "\\u2d1b", "\\u10bb", "\\u2d1c", "\\u10bc",
    "\\u2d1d", "\\u10bd", "\\u2d1e", "\\u10be", "\\u2d1f", "\\u10bf",
    "\\u2d20", "\\u10c0", "\\u2d21", "\\u10c1", "\\u2d22", "\\u10c2",
    "\\u2d23", "\\u10c3", "\\u2d24", "\\u10c4", "\\u2d25", "\\u10c5",
    "\\u2d27", "\\u10c7", "\\u2d2d", "\\u10cd", "\\ua641", "\\ua640",
    "\\ua643", "\\ua642", "\\ua645", "\\ua644", "\\ua647", "\\ua646",
    "\\ua649", "\\ua648", "\\ua64b", "\\ua64a", "\\ua64d", "\\ua64c",
    "\\ua64f", "\\ua64e", "\\ua651", "\\ua650", "\\ua653", "\\ua652",
    "\\ua655", "\\ua654", "\\ua657", "\\ua656", "\\ua659", "\\ua658",
    "\\ua65b", "\\ua65a", "\\ua65d", "\\ua65c", "\\ua65f", "\\ua65e",
    "\\ua661", "\\ua660", "\\ua663", "\\ua662", "\\ua665", "\\ua664",
    "\\ua667", "\\ua666", "\\ua669", "\\ua668", "\\ua66b", "\\ua66a",
    "\\ua66d", "\\ua66c", "\\ua681", "\\ua680", "\\ua683", "\\ua682",
    "\\ua685", "\\ua684", "\\ua687", "\\ua686", "\\ua689", "\\ua688",
    "\\ua68b", "\\ua68a", "\\ua68d", "\\ua68c", "\\ua68f", "\\ua68e",
    "\\ua691", "\\ua690", "\\ua693", "\\ua692", "\\ua695", "\\ua694",
    "\\ua697", "\\ua696", "\\ua699", "\\ua698", "\\ua69b", "\\ua69a",
    "\\ua723", "\\ua722", "\\ua725", "\\ua724", "\\ua727", "\\ua726",
    "\\ua729", "\\ua728", "\\ua72b", "\\ua72a", "\\ua72d", "\\ua72c",
    "\\ua72f", "\\ua72e", "\\ua733", "\\ua732", "\\ua735", "\\ua734",
    "\\ua737", "\\ua736", "\\ua739", "\\ua738", "\\ua73b", "\\ua73a",
    "\\ua73d", "\\ua73c", "\\ua73f", "\\ua73e", "\\ua741", "\\ua740",
    "\\ua743", "\\ua742", "\\ua745", "\\ua744", "\\ua747", "\\ua746",
    "\\ua749", "\\ua748", "\\ua74b", "\\ua74a", "\\ua74d", "\\ua74c",
    "\\ua74f", "\\ua74e", "\\ua751", "\\ua750", "\\ua753", "\\ua752",
    "\\ua755", "\\ua754", "\\ua757", "\\ua756", "\\ua759", "\\ua758",
    "\\ua75b", "\\ua75a", "\\ua75d", "\\ua75c", "\\ua75f", "\\ua75e",
    "\\ua761", "\\ua760", "\\ua763", "\\ua762", "\\ua765", "\\ua764",
    "\\ua767", "\\ua766", "\\ua769", "\\ua768", "\\ua76b", "\\ua76a",
    "\\ua76d", "\\ua76c", "\\ua76f", "\\ua76e", "\\ua77a", "\\ua779",
    "\\ua77c", "\\ua77b", "\\ua77f", "\\ua77e", "\\ua781", "\\ua780",
    "\\ua783", "\\ua782", "\\ua785", "\\ua784", "\\ua787", "\\ua786",
    "\\ua78c", "\\ua78b", "\\ua791", "\\ua790", "\\ua793", "\\ua792",
    "\\ua794", "\\ua7c4", "\\ua797", "\\ua796", "\\ua799", "\\ua798",
    "\\ua79b", "\\ua79a", "\\ua79d", "\\ua79c", "\\ua79f", "\\ua79e",
    "\\ua7a1", "\\ua7a0", "\\ua7a3", "\\ua7a2", "\\ua7a5", "\\ua7a4",
    "\\ua7a7", "\\ua7a6", "\\ua7a9", "\\ua7a8", "\\ua7b5", "\\ua7b4",
    "\\ua7b7", "\\ua7b6", "\\ua7b9", "\\ua7b8", "\\ua7bb", "\\ua7ba",
    "\\ua7bd", "\\ua7bc", "\\ua7bf", "\\ua7be", "\\ua7c1", "\\ua7c0",
    "\\ua7c3", "\\ua7c2", "\\ua7c8", "\\ua7c7", "\\ua7ca", "\\ua7c9",
    "\\ua7cd", "\\ua7cc", "\\ua7cf", "\\ua7ce", "\\ua7d1", "\\ua7d0",
    "\\ua7d3", "\\ua7d2", "\\ua7d5", "\\ua7d4", "\\ua7d7", "\\ua7d6",
    "\\ua7d9", "\\ua7d8", "\\ua7db", "\\ua7da", "\\ua7f6", "\\ua7f5",
    "\\uab53", "\\ua7b3", "\\uab70", "\\u13a0", "\\uab71", "\\u13a1",
    "\\uab72", "\\u13a2", "\\uab73", "\\u13a3", "\\uab74", "\\u13a4",
    "\\uab75", "\\u13a5", "\\uab76", "\\u13a6", "\\uab77", "\\u13a7",
    "\\uab78", "\\u13a8", "\\uab79", "\\u13a9", "\\uab7a", "\\u13aa",
    "\\uab7b", "\\u13ab", "\\uab7c", "\\u13ac", "\\uab7d", "\\u13ad",
    "\\uab7e", "\\u13ae", "\\uab7f", "\\u13af", "\\uab80", "\\u13b0",
    "\\uab81", "\\u13b1", "\\uab82", "\\u13b2", "\\uab83", "\\u13b3",
    "\\uab84", "\\u13b4", "\\uab85", "\\u13b5", "\\uab86", "\\u13b6",
    "\\uab87", "\\u13b7", "\\uab88", "\\u13b8", "\\uab89", "\\u13b9",
    "\\uab8a", "\\u13ba", "\\uab8b", "\\u13bb", "\\uab8c", "\\u13bc",
    "\\uab8d", "\\u13bd", "\\uab8e", "\\u13be", "\\uab8f", "\\u13bf",
    "\\uab90", "\\u13c0", "\\uab91", "\\u13c1", "\\uab92", "\\u13c2",
    "\\uab93", "\\u13c3", "\\uab94", "\\u13c4", "\\uab95", "\\u13c5",
    "\\uab96", "\\u13c6", "\\uab97", "\\u13c7", "\\uab98", "\\u13c8",
    "\\uab99", "\\u13c9", "\\uab9a", "\\u13ca", "\\uab9b", "\\u13cb",
    "\\uab9c", "\\u13cc", "\\uab9d", "\\u13cd", "\\uab9e", "\\u13ce",
    "\\uab9f", "\\u13cf", "\\uaba0", "\\u13d0", "\\uaba1", "\\u13d1",
    "\\uaba2", "\\u13d2", "\\uaba3", "\\u13d3", "\\uaba4", "\\u13d4",
    "\\uaba5", "\\u13d5", "\\uaba6", "\\u13d6", "\\uaba7", "\\u13d7",
    "\\uaba8", "\\u13d8", "\\uaba9", "\\u13d9", "\\uabaa", "\\u13da",
    "\\uabab", "\\u13db", "\\uabac", "\\u13dc", "\\uabad", "\\u13dd",
    "\\uabae", "\\u13de", "\\uabaf", "\\u13df", "\\uabb0", "\\u13e0",
    "\\uabb1", "\\u13e1", "\\uabb2", "\\u13e2", "\\uabb3", "\\u13e3",
    "\\uabb4", "\\u13e4", "\\uabb5", "\\u13e5", "\\uabb6", "\\u13e6",
    "\\uabb7", "\\u13e7", "\\uabb8", "\\u13e8", "\\uabb9", "\\u13e9",
    "\\uabba", "\\u13ea", "\\uabbb", "\\u13eb", "\\uabbc", "\\u13ec",
    "\\uabbd", "\\u13ed", "\\uabbe", "\\u13ee", "\\uabbf", "\\u13ef",
    "\\uff41", "\\uff21", "\\uff42", "\\uff22", "\\uff43", "\\uff23",
    "\\uff44", "\\uff24", "\\uff45", "\\uff25", "\\uff46", "\\uff26",
    "\\uff47", "\\uff27", "\\uff48", "\\uff28", "\\uff49", "\\uff29",
    "\\uff4a", "\\uff2a", "\\uff4b", "\\uff2b", "\\uff4c", "\\uff2c",
    "\\uff4d", "\\uff2d", "\\uff4e", "\\uff2e", "\\uff4f", "\\uff2f",
    "\\uff50", "\\uff30", "\\uff51", "\\uff31", "\\uff52", "\\uff32",
    "\\uff53", "\\uff33", "\\uff54", "\\uff34", "\\uff55", "\\uff35",
    "\\uff56", "\\uff36", "\\uff57", "\\uff37", "\\uff58", "\\uff38",
    "\\uff59", "\\uff39", "\\uff5a", "\\uff3a">>

\* toUpperCase for the code units it changes to several: each before the
\* two or three code units of its upper case, "" where there is no third
UpperCaseExpansions ==
  <<"ß", "S", "S", "", "\\u0149", "\\u02bc", "N", "", "\\u01f0", "J",
    "\\u030c", "", "\\u0390", "\\u0399", "\\u0308", "\\u0301", "\\u03b0",
    "\\u03a5", "\\u0308", "\\u0301", "\\u0587", "\\u0535", "\\u0552", "",
    "\\u1e96", "H", "\\u0331", "", "\\u1e97", "T", "\\u0308", "", "\\u1e98",
    "W", "\\u030a", "", "\\u1e99", "Y", "\\u030a", "", "\\u1e9a", "A",
    "\\u02be", "", "\\u1f50", "\\u03a5", "\\u0313", "", "\\u1f52", "\\u03a5",
    "\\u0313", "\\u0300", "\\u1f54", "\\u03a5", "\\u0313", "\\u0301",
    "\\u1f56", "\\u03a5", "\\u0313", "\\u0342", "\\u1f80", "\\u1f08",
    "\\u0399", "", "\\u1f81", "\\u1f09", "\\u0399", "", "\\u1f82", "\\u1f0a",
    "\\u0399", "", "\\u1f83", "\\u1f0b", "\\u0399", "", "\\u1f84", "\\u1f0c",
    "\\u0399", "", "\\u1f85", "\\u1f0d", "\\u0399", "", "\\u1f86", "\\u1f0e",
    "\\u0399", "", "\\u1f87", "\\u1f0f", "\\u0399", "", "\\u1f88", "\\u1f08",
    "\\u0399", "", "\\u1f89", "\\u1f09", "\\u0399", "", "\\u1f8a", "\\u1f0a",
    "\\u0399", "", "\\u1f8b", "\\u1f0b", "\\u0399", "", "\\u1f8c", "\\u1f0c",
    "\\u0399", "", "\\u1f8d", "\\u1f0d", "\\u0399", "", "\\u1f8e", "\\u1f0e",
    "\\u0399", "", "\\u1f8f", "\\u1f0f", "\\u0399", "", "\\u1f90", "\\u1f28",
    "\\u0399", "", "\\u1f91", "\\u1f29", "\\u0399", "", "\\u1f92", "\\u1f2a",
    "\\u0399", "", "\\u1f93", "\\u1f2b", "\\u0399", "", "\\u1f94", "\\u1f2c",
    "\\u0399", "", "\\u1f95", "\\u1f2d", "\\u0399", "", "\\u1f96", "\\u1f2e",
    "\\u0399", "", "\\u1f97", "\\u1f2f", "\\u0399", "", "\\u1f98", "\\u1f28",
    "\\u0399", "", "\\u1f99", "\\u1f29", "\\u0399", "", "\\u1f9a", "\\u1f2a",
    "\\u0399", "", "\\u1f9b", "\\u1f2b", "\\u0399", "", "\\u1f9c", "\\u1f2c",
    "\\u0399", "", "\\u1f9d", "\\u1f2d", "\\u0399", "", "\\u1f9e", "\\u1f2e",
    "\\u0399", "", "\\u1f9f", "\\u1f2f", "\\u0399", "", "\\u1fa0", "\\u1f68",
    "\\u0399", "", "\\u1fa1", "\\u1f69", "\\u0399", "", "\\u1fa2", "\\u1f6a",
    "\\u0399", "", "\\u1fa3", "\\u1f6b", "\\u0399", "", "\\u1fa4", "\\u1f6c",
    "\\u0399", "", "\\u1fa5", "\\u1f6d", "\\u0399", "", "\\u1fa6", "\\u1f6e",
    "\\u0399", "", "\\u1fa7", "\\u1f6f", "\\u0399", "", "\\u1fa8", "\\u1f68",
    "\\u0399", "", "\\u1fa9", "\\u1f69", "\\u0399", "", "\\u1faa", "\\u1f6a",
    "\\u0399", "", "\\u1fab", "\\u1f6b", "\\u0399", "", "\\u1fac", "\\u1f6c",
    "\\u0399", "", "\\u1fad", "\\u1f6d", "\\u0399", "", "\\u1fae", "\\u1f6e",
    "\\u0399", "", "\\u1faf", "\\u1f6f", "\\u0399", "", "\\u1fb2", "\\u1fba",
    "\\u0399", "", "\\u1fb3", "\\u0391", "\\u0399", "", "\\u1fb4", "\\u0386",
    "\\u0399", "", "\\u1fb6", "\\u0391", "\\u0342", "", "\\u1fb7", "\\u0391",
    "\\u0342", "\\u0399", "\\u1fbc", "\\u0391", "\\u0399", "", "\\u1fc2",
    "\\u1fca", "\\u0399", "", "\\u1fc3", "\\u0397", "\\u0399", "", "\\u1fc4",
    "\\u0389", "\\u0399", "", "\\u1fc6", "\\u0397", "\\u0342", "", "\\u1fc7",
    "\\u0397", "\\u0342", "\\u0399", "\\u1fcc", "\\u0397", "\\u0399", "",
    "\\u1fd2", "\\u0399", "\\u0308", "\\u0300", "\\u1fd3", "\\u0399",
    "\\u0308", "\\u0301", "\\u1fd6", "\\u0399", "\\u0342", "", "\\u1fd7",
    "\\u0399", "\\u0308", "\\u0342", "\\u1fe2", "\\u03a5", "\\u0308",
    "\\u0300", "\\u1fe3", "\\u03a5", "\\u0308", "\\u0301", "\\u1fe4",
    "\\u03a1", "\\u0313", "", "\\u1fe6", "\\u03a5", "\\u0342", "", "\\u1fe7",
    "\\u03a5", "\\u0308", "\\u0342", "\\u1ff2", "\\u1ffa", "\\u0399", "",
    "\\u1ff3", "\\u03a9", "\\u0399", "", "\\u1ff4", "\\u038f", "\\u0399", "",
    "\\u1ff6", "\\u03a9", "\\u0342", "", "\\u1ff7", "\\u03a9", "\\u0342",
    "\\u0399", "\\u1ffc", "\\u03a9", "\\u0399", "", "\\ufb00", "F", "F", "",
    "\\ufb01", "F", "I", "", "\\ufb02", "F", "L", "", "\\ufb03", "F", "F",
    "I", "\\ufb04", "F", "F", "L", "\\ufb05", "S", "T", "", "\\ufb06", "S",
    "T", "", "\\ufb13", "\\u0544", "\\u0546", "", "\\ufb14", "\\u0544",
    "\\u0535", "", "\\ufb15", "\\u0544", "\\u053b", "", "\\ufb16", "\\u054e",
    "\\u0546", "", "\\ufb17", "\\u0544", "\\u053d", "">>

\* toLowerCase for the characters beyond U+FFFF that it changes: each pair
\* before the two code units of its lower case
SupplementaryLowerCasePairs ==
  <<"\\ud801\\udc00", "\\ud801", "\\udc28", "\\ud801\\udc01", "\\ud801",
    "\\udc29", "\\ud801\\udc02", "\\ud801", "\\udc2a", "\\ud801\\udc03",
    "\\ud801", "\\udc2b", "\\ud801\\udc04", "\\ud801", "\\udc2c",
    "\\ud801\\udc05", "\\ud801", "\\udc2d", "\\ud801\\udc06", "\\ud801",
    "\\udc2e", "\\ud801\\udc07", "\\ud801", "\\udc2f", "\\ud801\\udc08",
    "\\ud801", "\\udc30", "\\ud801\\udc09", "\\ud801", "\\udc31",
    "\\ud801\\udc0a", "\\ud801", "\\udc32", "\\ud801\\udc0b", "\\ud801",
    "\\udc33", "\\ud801\\udc0c", "\\ud801", "\\udc34", "\\ud801\\udc0d",
    "\\ud801", "\\udc35", "\\ud801\\udc0e", "\\ud801", "\\udc36",
    "\\ud801\\udc0f", "\\ud801", "\\udc37", "\\ud801\\udc10", "\\ud801",
    "\\udc38", "\\ud801\\udc11", "\\ud801", "\\udc39", "\\ud801\\udc12",
    "\\ud801", "\\udc3a", "\\ud801\\udc13", "\\ud801", "\\udc3b",
    "\\ud801\\udc14", "\\ud801", "\\udc3c", "\\ud801\\udc15", "\\ud801",
    "\\udc3d", "\\ud801\\udc16", "\\ud801", "\\udc3e", "\\ud801\\udc17",
    "\\ud801", "\\udc3f", "\\ud801\\udc18", "\\ud801", "\\udc40",
    "\\ud801\\udc19", "\\ud801", "\\udc41", "\\ud801\\udc1a", "\\ud801",
    "\\udc42", "\\ud801\\udc1b", "\\ud801", "\\udc43", "\\ud801\\udc1c",
    "\\ud801", "\\udc44", "\\ud801\\udc1d", "\\ud801", "\\udc45",
    "\\ud801\\udc1e", "\\ud801", "\\udc46", "\\ud801\\udc1f", "\\ud801",
    "\\udc47", "\\ud801\\udc20", "\\ud801", "\\udc48", "\\ud801\\udc21",
    "\\ud801", "\\udc49", "\\ud801\\udc22", "\\ud801", "\\udc4a",
    "\\ud801\\udc23", "\\ud801", "\\udc4b", "\\ud801\\udc24", "\\ud801",
    "\\udc4c", "\\ud801\\udc25", "\\ud801", "\\udc4d", "\\ud801\\udc26",
    "\\ud801", "\\udc4e", "\\ud801\\udc27", "\\ud801", "\\udc4f",
    "\\ud801\\udcb0", "\\ud801", "\\udcd8", "\\ud801\\udcb1", "\\ud801",
    "\\udcd9", "\\ud801\\udcb2", "\\ud801", "\\udcda", "\\ud801\\udcb3",
    "\\ud801", "\\udcdb", "\\ud801\\udcb4", "\\ud801", "\\udcdc",
    "\\ud801\\udcb5", "\\ud801", "\\udcdd", "\\ud801\\udcb6", "\\ud801",
    "\\udcde", "\\ud801\\udcb7", "\\ud801", "\\udcdf", "\\ud801\\udcb8",
    "\\ud801", "\\udce0", "\\ud801\\udcb9", "\\ud801", "\\udce1",
    "\\ud801\\udcba", "\\ud801", "\\udce2", "\\ud801\\udcbb", "\\ud801",
    "\\udce3", "\\ud801\\udcbc", "\\ud801", "\\udce4", "\\ud801\\udcbd",
    "\\ud801", "\\udce5", "\\ud801\\udcbe", "\\ud801", "\\udce6",
    "\\ud801\\udcbf", "\\ud801", "\\udce7", "\\ud801\\udcc0", "\\ud801",
    "\\udce8", "\\ud801\\udcc1", "\\ud801", "\\udce9", "\\ud801\\udcc2",
    "\\ud801", "\\udcea", "\\ud801\\udcc3", "\\ud801", "\\udceb",
    "\\ud801\\udcc4", "\\ud801", "\\udcec", "\\ud801\\udcc5", "\\ud801",
    "\\udced", "\\ud801\\udcc6", "\\ud801", "\\udcee", "\\ud801\\udcc7",
    "\\ud801", "\\udcef", "\\ud801\\udcc8", "\\ud801", "\\udcf0",
    "\\ud801\\udcc9", "\\ud801", "\\udcf1", "\\ud801\\udcca", "\\ud801",
    "\\udcf2", "\\ud801\\udccb", "\\ud801", "\\udcf3", "\\ud801\\udccc",
    "\\ud801", "\\udcf4", "\\ud801\\udccd", "\\ud801", "\\udcf5",
    "\\ud801\\udcce", "\\ud801", "\\udcf6", "\\ud801\\udccf", "\\ud801",
    "\\udcf7", "\\ud801\\udcd0", "\\ud801", "\\udcf8", "\\ud801\\udcd1",
    "\\ud801", "\\udcf9", "\\ud801\\udcd2", "\\ud801", "\\udcfa",
    "\\ud801\\udcd3", "\\ud801", "\\udcfb", "\\ud801\\udd70", "\\ud801",
    "\\udd97", "\\ud801\\udd71", "\\ud801", "\\udd98", "\\ud801\\udd72",
    "\\ud801", "\\udd99", "\\ud801\\udd73", "\\ud801", "\\udd9a",
    "\\ud801\\udd74", "\\ud801", "\\udd9b", "\\ud801\\udd75", "\\ud801",
    "\\udd9c", "\\ud801\\udd76", "\\ud801", "\\udd9d", "\\ud801\\udd77",
    "\\ud801", "\\udd9e", "\\ud801\\udd78", "\\ud801", "\\udd9f",
    "\\ud801\\udd79", "\\ud801", "\\udda0", "\\ud801\\udd7a", "\\ud801",
    "\\udda1", "\\ud801\\udd7c", "\\ud801", "\\udda3", "\\ud801\\udd7d",
    "\\ud801", "\\udda4", "\\ud801\\udd7e", "\\ud801", "\\udda5",
    "\\ud801\\udd7f", "\\ud801", "\\udda6", "\\ud801\\udd80", "\\ud801",
    "\\udda7", "\\ud801\\udd81", "\\ud801", "\\udda8", "\\ud801\\udd82",
    "\\ud801", "\\udda9", "\\ud801\\udd83", "\\ud801", "\\uddaa",
    "\\ud801\\udd84", "\\ud801", "\\uddab", "\\ud801\\udd85", "\\ud801",
    "\\uddac", "\\ud801\\udd86", "\\ud801", "\\uddad", "\\ud801\\udd87",
    "\\ud801", "\\uddae", "\\ud801\\udd88", "\\ud801", "\\uddaf",
    "\\ud801\\udd89", "\\ud801", "\\uddb0", "\\ud801\\udd8a", "\\ud801",
    "\\uddb1", "\\ud801\\udd8c", "\\ud801", "\\uddb3", "\\ud801\\udd8d",
    "\\ud801", "\\uddb4", "\\ud801\\udd8e", "\\ud801", "\\uddb5",
    "\\ud801\\udd8f", "\\ud801", "\\uddb6", "\\ud801\\udd90", "\\ud801",
    "\\uddb7", "\\ud801\\udd91", "\\ud801", "\\uddb8", "\\ud801\\udd92",
    "\\ud801", "\\uddb9", "\\ud801\\udd94", "\\ud801", "\\uddbb",
    "\\ud801\\udd95", "\\ud801", "\\uddbc", "\\ud803\\udc80", "\\ud803",
    "\\udcc0", "\\ud803\\udc81", "\\ud803", "\\udcc1", "\\ud803\\udc82",
    "\\ud803", "\\udcc2", "\\ud803\\udc83", "\\ud803", "\\udcc3",
    "\\ud803\\udc84", "\\ud803", "\\udcc4", "\\ud803\\udc85", "\\ud803",
    "\\udcc5", "\\ud803\\udc86", "\\ud803", "\\udcc6", "\\ud803\\udc87",
    "\\ud803", "\\udcc7", "\\ud803\\udc88", "\\ud803", "\\udcc8",
    "\\ud803\\udc89", "\\ud803", "\\udcc9", "\\ud803\\udc8a", "\\ud803",
    "\\udcca", "\\ud803\\udc8b", "\\ud803", "\\udccb", "\\ud803\\udc8c",
    "\\ud803", "\\udccc", "\\ud803\\udc8d", "\\ud803", "\\udccd",
    "\\ud803\\udc8e", "\\ud803", "\\udcce", "\\ud803\\udc8f", "\\ud803",
    "\\udccf", "\\ud803\\udc90", "\\ud803", "\\udcd0", "\\ud803\\udc91",
    "\\ud803", "\\udcd1", "\\ud803\\udc92", "\\ud803", "\\udcd2",
    "\\ud803\\udc93", "\\ud803", "\\udcd3", "\\ud803\\udc94", "\\ud803",
    "\\udcd4", "\\ud803\\udc95", "\\ud803", "\\udcd5", "\\ud803\\udc96",
    "\\ud803", "\\udcd6", "\\ud803\\udc97", "\\ud803", "\\udcd7",
    "\\ud803\\udc98", "\\ud803", "\\udcd8", "\\ud803\\udc99", "\\ud803",
    "\\udcd9", "\\ud803\\udc9a", "\\ud803", "\\udcda", "\\ud803\\udc9b",
    "\\ud803", "\\udcdb", "\\ud803\\udc9c", "\\ud803", "\\udcdc",
    "\\ud803\\udc9d", "\\ud803", "\\udcdd", "\\ud803\\udc9e", "\\ud803",
    "\\udcde", "\\ud803\\udc9f", "\\ud803", "\\udcdf", "\\ud803\\udca0",
    "\\ud803", "\\udce0", "\\ud803\\udca1", "\\ud803", "\\udce1",
    "\\ud803\\udca2", "\\ud803", "\\udce2", "\\ud803\\udca3", "\\ud803",
    "\\udce3", "\\ud803\\udca4", "\\ud803", "\\udce4", "\\ud803\\udca5",
    "\\ud803", "\\udce5", "\\ud803\\udca6", "\\ud803", "\\udce6",
    "\\ud803\\udca7", "\\ud803", "\\udce7", "\\ud803\\udca8", "\\ud803",
    "\\udce8", "\\ud803\\udca9", "\\ud803", "\\udce9", "\\ud803\\udcaa",
    "\\ud803", "\\udcea", "\\ud803\\udcab", "\\ud803", "\\udceb",
    "\\ud803\\udcac", "\\ud803", "\\udcec", "\\ud803\\udcad", "\\ud803",
    "\\udced", "\\ud803\\udcae", "\\ud803", "\\udcee", "\\ud803\\udcaf",
    "\\ud803", "\\udcef", "\\ud803\\udcb0", "\\ud803", "\\udcf0",
    "\\ud803\\udcb1", "\\ud803", "\\udcf1", "\\ud803\\udcb2", "\\ud803",
    "\\udcf2", "\\ud803\\udd50", "\\ud803", "\\udd70", "\\ud803\\udd51",
    "\\ud803", "\\udd71", "\\ud803\\udd52", "\\ud803", "\\udd72",
    "\\ud803\\udd53", "\\ud803", "\\udd73", "\\ud803\\udd54", "\\ud803",
    "\\udd74", "\\ud803\\udd55", "\\ud803", "\\udd75", "\\ud803\\udd56",
    "\\ud803", "\\udd76", "\\ud803\\udd57", "\\ud803", "\\udd77",
    "\\ud803\\udd58", "\\ud803", "\\udd78", "\\ud803\\udd59", "\\ud803",
    "\\udd79", "\\ud803\\udd5a", "\\ud803", "\\udd7a", "\\ud803\\udd5b",
    "\\ud803", "\\udd7b", "\\ud803\\udd5c", "\\ud803", "\\udd7c",
    "\\ud803\\udd5d", "\\ud803", "\\udd7d", "\\ud803\\udd5e", "\\ud803",
    "\\udd7e", "\\ud803\\udd5f", "\\ud803", "\\udd7f", "\\ud803\\udd60",
    "\\ud803", "\\udd80", "\\ud803\\udd61", "\\ud803", "\\udd81",
    "\\ud803\\udd62", "\\ud803", "\\udd82", "\\ud803\\udd63", "\\ud803",
    "\\udd83", "\\ud803\\udd64", "\\ud803", "\\udd84", "\\ud803\\udd65",
    "\\ud803", "\\udd85", "\\ud806\\udca0", "\\ud806", "\\udcc0",
    "\\ud806\\udca1", "\\ud806", "\\udcc1", "\\ud806\\udca2", "\\ud806",
    "\\udcc2", "\\ud806\\udca3", "\\ud806", "\\udcc3", "\\ud806\\udca4",
    "\\ud806", "\\udcc4", "\\ud806\\udca5", "\\ud806", "\\udcc5",
    "\\ud806\\udca6", "\\ud806", "\\udcc6", "\\ud806\\udca7", "\\ud806",
    "\\udcc7", "\\ud806\\udca8", "\\ud806", "\\udcc8", "\\ud806\\udca9",
    "\\ud806", "\\udcc9", "\\ud806\\udcaa", "\\ud806", "\\udcca",
    "\\ud806\\udcab", "\\ud806", "\\udccb", "\\ud806\\udcac", "\\ud806",
    "\\udccc", "\\ud806\\udcad", "\\ud806", "\\udccd", "\\ud806\\udcae",
    "\\ud806", "\\udcce", "\\ud806\\udcaf", "\\ud806", "\\udccf",
    "\\ud806\\udcb0", "\\ud806", "\\udcd0", "\\ud806\\udcb1", "\\ud806",
    "\\udcd1", "\\ud806\\udcb2", "\\ud806", "\\udcd2", "\\ud806\\udcb3",
    "\\ud806", "\\udcd3", "\\ud806\\udcb4", "\\ud806", "\\udcd4",
    "\\ud806\\udcb5", "\\ud806", "\\udcd5", "\\ud806\\udcb6", "\\ud806",
    "\\udcd6", "\\ud806\\udcb7", "\\ud806", "\\udcd7", "\\ud806\\udcb8",
    "\\ud806", "\\udcd8", "\\ud806\\udcb9", "\\ud806", "\\udcd9",
    "\\ud806\\udcba", "\\ud806", "\\udcda", "\\ud806\\udcbb", "\\ud806",
    "\\udcdb", "\\ud806\\udcbc", "\\ud806", "\\udcdc", "\\ud806\\udcbd",
    "\\ud806", "\\udcdd", "\\ud806\\udcbe", "\\ud806", "\\udcde",
    "\\ud806\\udcbf", "\\ud806", "\\udcdf", "\\ud81b\\ude40", "\\ud81b",
    "\\ude60", "\\ud81b\\ude41", "\\ud81b", "\\ude61", "\\ud81b\\ude42",
    "\\ud81b", "\\ude62", "\\ud81b\\ude43", "\\ud81b", "\\ude63",
    "\\ud81b\\ude44", "\\ud81b", "\\ude64", "\\ud81b\\ude45", "\\ud81b",
    "\\ude65", "\\ud81b\\ude46", "\\ud81b", "\\ude66", "\\ud81b\\ude47",
    "\\ud81b", "\\ude67", "\\ud81b\\ude48", "\\ud81b", "\\ude68",
    "\\ud81b\\ude49", "\\ud81b", "\\ude69", "\\ud81b\\ude4a", "\\ud81b",
    "\\ude6a", "\\ud81b\\ude4b", "\\ud81b", "\\ude6b", "\\ud81b\\ude4c",
    "\\ud81b", "\\ude6c", "\\ud81b\\ude4d", "\\ud81b", "\\ude6d",
    "\\ud81b\\ude4e", "\\ud81b", "\\ude6e", "\\ud81b\\ude4f", "\\ud81b",
    "\\ude6f", "\\ud81b\\ude50", "\\ud81b", "\\ude70", "\\ud81b\\ude51",
    "\\ud81b", "\\ude71", "\\ud81b\\ude52", "\\ud81b", "\\ude72",
    "\\ud81b\\ude53", "\\ud81b", "\\ude73", "\\ud81b\\ude54", "\\ud81b",
    "\\ude74", "\\ud81b\\ude55", "\\ud81b", "\\ude75", "\\ud81b\\ude56",
    "\\ud81b", "\\ude76", "\\ud81b\\ude57", "\\ud81b", "\\ude77",
    "\\ud81b\\ude58", "\\ud81b", "\\ude78", "\\ud81b\\ude59", "\\ud81b",
    "\\ude79", "\\ud81b\\ude5a", "\\ud81b", "\\ude7a", "\\ud81b\\ude5b",
    "\\ud81b", "\\ude7b", "\\ud81b\\ude5c", "\\ud81b", "\\ude7c",
    "\\ud81b\\ude5d", "\\ud81b", "\\ude7d", "\\ud81b\\ude5e", "\\ud81b",
    "\\ude7e", "\\ud81b\\ude5f", "\\ud81b", "\\ude7f", "\\ud81b\\udea0",
    "\\ud81b", "\\udebb", "\\ud81b\\udea1", "\\ud81b", "\\udebc",
    "\\ud81b\\udea2", "\\ud81b", "\\udebd", "\\ud81b\\udea3", "\\ud81b",
    "\\udebe", "\\ud81b\\udea4", "\\ud81b", "\\udebf", "\\ud81b\\udea5",
    "\\ud81b", "\\udec0", "\\ud81b\\udea6", "\\ud81b", "\\udec1",
    "\\ud81b\\udea7", "\\ud81b", "\\udec2", "\\ud81b\\udea8", "\\ud81b",
    "\\udec3", "\\ud81b\\udea9", "\\ud81b", "\\udec4", "\\ud81b\\udeaa",
    "\\ud81b", "\\udec5", "\\ud81b\\udeab", "\\ud81b", "\\udec6",
    "\\ud81b\\udeac", "\\ud81b", "\\udec7", "\\ud81b\\udead", "\\ud81b",
    "\\udec8", "\\ud81b\\udeae", "\\ud81b", "\\udec9", "\\ud81b\\udeaf",
    "\\ud81b", "\\udeca", "\\ud81b\\udeb0", "\\ud81b", "\\udecb",
    "\\ud81b\\udeb1", "\\ud81b", "\\udecc", "\\ud81b\\udeb2", "\\ud81b",
    "\\udecd", "\\ud81b\\udeb3", "\\ud81b", "\\udece", "\\ud81b\\udeb4",
    "\\ud81b", "\\udecf", "\\ud81b\\udeb5", "\\ud81b", "\\uded0",
    "\\ud81b\\udeb6", "\\ud81b", "\\uded1", "\\ud81b\\udeb7", "\\ud81b",
    "\\uded2", "\\ud81b\\udeb8", "\\ud81b", "\\uded3", "\\ud83a\\udd00",
    "\\ud83a", "\\udd22", "\\ud83a\\udd01", "\\ud83a", "\\udd23",
    "\\ud83a\\udd02", "\\ud83a", "\\udd24", "\\ud83a\\udd03", "\\ud83a",
    "\\udd25", "\\ud83a\\udd04", "\\ud83a", "\\udd26", "\\ud83a\\udd05",
    "\\ud83a", "\\udd27", "\\ud83a\\udd06", "\\ud83a", "\\udd28",
    "\\ud83a\\udd07", "\\ud83a", "\\udd29", "\\ud83a\\udd08", "\\ud83a",
    "\\udd2a", "\\ud83a\\udd09", "\\ud83a", "\\udd2b", "\\ud83a\\udd0a",
    "\\ud83a", "\\udd2c", "\\ud83a\\udd0b", "\\ud83a", "\\udd2d",
    "\\ud83a\\udd0c", "\\ud83a", "\\udd2e", "\\ud83a\\udd0d", "\\ud83a",
    "\\udd2f", "\\ud83a\\udd0e", "\\ud83a", "\\udd30", "\\ud83a\\udd0f",
    "\\ud83a", "\\udd31", "\\ud83a\\udd10", "\\ud83a", "\\udd32",
    "\\ud83a\\udd11", "\\ud83a", "\\udd33", "\\ud83a\\udd12", "\\ud83a",
    "\\udd34", "\\ud83a\\udd13", "\\ud83a", "\\udd35", "\\ud83a\\udd14",
    "\\ud83a", "\\udd36", "\\ud83a\\udd15", "\\ud83a", "\\udd37",
    "\\ud83a\\udd16", "\\ud83a", "\\udd38", "\\ud83a\\udd17", "\\ud83a",
    "\\udd39", "\\ud83a\\udd18", "\\ud83a", "\\udd3a", "\\ud83a\\udd19",
    "\\ud83a", "\\udd3b", "\\ud83a\\udd1a", "\\ud83a", "\\udd3c",
    "\\ud83a\\udd1b", "\\ud83a", "\\udd3d", "\\ud83a\\udd1c", "\\ud83a",
    "\\udd3e", "\\ud83a\\udd1d", "\\ud83a", "\\udd3f", "\\ud83a\\udd1e",
    "\\ud83a", "\\udd40", "\\ud83a\\udd1f", "\\ud83a", "\\udd41",
    "\\ud83a\\udd20", "\\ud83a", "\\udd42", "\\ud83a\\udd21", "\\ud83a",
    "\\udd43">>

\* the code units with the property Cased of Unicode
Cased ==
  {"A", "B", "C", "D", "E", "F", "G", "H", "I", "J", "K", "L", "M", "N", "O",
    "P", "Q", "R", "S", "T", "U", "V", "W", "X", "Y", "Z", "a", "b", "c", "d",
    "e", "f", "g", "h", "i", "j", "k", "l", "m", "n", "o", "p", "q", "r", "s",
    "t", "u", "v", "w", "x", "y", "z", "ª", "µ", "º", "À", "Á", "Â", "Ã", "Ä",
    "Å", "Æ", "Ç", "È", "É", "Ê", "Ë", "Ì", "Í", "Î", "Ï", "Ð", "Ñ", "Ò", "Ó",
    "Ô", "Õ", "Ö", "Ø", "Ù", "Ú", "Û", "Ü", "Ý", "Þ", "ß", "à", "á", "â", "ã",
    "ä", "å", "æ", "ç", "è", "é", "ê", "ë", "ì", "í", "î", "ï", "ð", "ñ", "ò",
    "ó", "ô", "õ", "ö", "ø", "ù", "ú", "û", "ü", "ý", "þ", "ÿ", "\\u0100",
    "\\u0101", "\\u0102", "\\u0103", "\\u0104", "\\u0105", "\\u0106",
    "\\u0107", "\\u0108", "\\u0109", "\\u010a", "\\u010b", "\\u010c",
    "\\u010d", "\\u010e", "\\u010f", "\\u0110", "\\u0111", "\\u0112",
    "\\u0113", "\\u0114", "\\u0115", "\\u0116", "\\u0117", "\\u0118",
    "\\u0119", "\\u011a", "\\u011b", "\\u011c", "\\u011d", "\\u011e",
    "\\u011f", "\\u0120", "\\u0121", "\\u0122", "\\u0123", "\\u0124",
    "\\u0125", "\\u0126", "\\u0127", "\\u0128", "\\u0129", "\\u012a",
    "\\u012b", "\\u012c", "\\u012d", "\\u012e", "\\u012f", "\\u0130",
    "\\u0131", "\\u0132", "\\u0133", "\\u0134", "\\u0135", "\\u0136",
    "\\u0137", "\\u0138", "\\u0139", "\\u013a", "\\u013b", "\\u013c",
    "\\u013d", "\\u013e", "\\u013f", "\\u0140", "\\u0141", "\\u0142",
    "\\u0143", "\\u0144", "\\u0145", "\\u0146", "\\u0147", "\\u0148",
    "\\u0149", "\\u014a", "\\u014b", "\\u014c", "\\u014d", "\\u014e",
    "\\u014f", "\\u0150", "\\u0151", "\\u0152", "\\u0153", "\\u0154",
    "\\u0155", "\\u0156", "\\u0157", "\\u0158", "\\u0159", "\\u015a",
    "\\u015b", "\\u015c", "\\u015d", "\\u015e", "\\u015f", "\\u0160",
    "\\u0161", "\\u0162", "\\u0163", "\\u0164", "\\u0165", "\\u0166",
    "\\u0167", "\\u0168", "\\u0169", "\\u016a", "\\u016b", "\\u016c",
    "\\u016d", "\\u016e", "\\u016f", "\\u0170", "\\u0171", "\\u0172",
    "\\u0173", "\\u0174", "\\u0175", "\\u0176", "\\u0177", "\\u0178",
    "\\u0179", "\\u017a", "\\u017b", "\\u017c", "\\u017d", "\\u017e",
    "\\u017f", "\\u0180", "\\u0181", "\\u0182", "\\u0183", "\\u0184",
    "\\u0185", "\\u0186", "\\u0187", "\\u0188", "\\u0189", "\\u018a",
    "\\u018b", "\\u018c", "\\u018d", "\\u018e", "\\u018f", "\\u0190",
    "\\u0191", "\\u0192", "\\u0193", "\\u0194", "\\u0195", "\\u0196",
    "\\u0197", "\\u0198", "\\u0199", "\\u019a", "\\u019b", "\\u019c",
    "\\u019d", "\\u019e", "\\u019f", "\\u01a0", "\\u01a1", "\\u01a2",
    "\\u01a3", "\\u01a4", "\\u01a5", "\\u01a6", "\\u01a7", "\\u01a8",
    "\\u01a9", "\\u01aa", "\\u01ab", "\\u01ac", "\\u01ad", "\\u01ae",
    "\\u01af", "\\u01b0", "\\u01b1", "\\u01b2", "\\u01b3", "\\u01b4",
    "\\u01b5", "\\u01b6", "\\u01b7", "\\u01b8", "\\u01b9", "\\u01ba",
    "\\u01bc", "\\u01bd", "\\u01be", "\\u01bf", "\\u01c4", "\\u01c5",
    "\\u01c6", "\\u01c7", "\\u01c8", "\\u01c9", "\\u01ca", "\\u01cb",
    "\\u01cc", "\\u01cd", "\\u01ce", "\\u01cf", "\\u01d0", "\\u01d1",
    "\\u01d2", "\\u01d3", "\\u01d4", "\\u01d5", "\\u01d6", "\\u01d7",
    "\\u01d8", "\\u01d9", "\\u01da", "\\u01db", "\\u01dc", "\\u01dd",
    "\\u01de", "\\u01df", "\\u01e0", "\\u01e1", "\\u01e2", "\\u01e3",
    "\\u01e4", "\\u01e5", "\\u01e6", "\\u01e7", "\\u01e8", "\\u01e9",
    "\\u01ea", "\\u01eb", "\\u01ec", "\\u01ed", "\\u01ee", "\\u01ef",
    "\\u01f0", "\\u01f1", "\\u01f2", "\\u01f3", "\\u01f4", "\\u01f5",
    "\\u01f6", "\\u01f7", "\\u01f8", "\\u01f9", "\\u01fa", "\\u01fb",
    "\\u01fc", "\\u01fd", "\\u01fe", "\\u01ff", "\\u0200", "\\u0201",
    "\\u0202", "\\u0203", "\\u0204", "\\u0205", "\\u0206", "\\u0207",
    "\\u0208", "\\u0209", "\\u020a", "\\u020b", "\\u020c", "\\u020d",
    "\\u020e", "\\u020f", "\\u0210", "\\u0211", "\\u0212", "\\u0213",
    "\\u0214", "\\u0215", "\\u0216", "\\u0217", "\\u0218", "\\u0219",
    "\\u021a", "\\u021b", "\\u021c", "\\u021d", "\\u021e", "\\u021f",
    "\\u0220", "\\u0221", "\\u0222", "\\u0223", "\\u0224", "\\u0225",
    "\\u0226", "\\u0227", "\\u0228", "\\u0229", "\\u022a", "\\u022b",
    "\\u022c", "\\u022d", "\\u022e", "\\u022f", "\\u0230", "\\u0231",
    "\\u0232", "\\u0233", "\\u0234", "\\u0235", "\\u0236", "\\u0237",
    "\\u0238", "\\u0239", "\\u023a", "\\u023b", "\\u023c", "\\u023d",
    "\\u023e", "\\u023f", "\\u0240", "\\u0241", "\\u0242", "\\u0243",
    "\\u0244", "\\u0245", "\\u0246", "\\u0247", "\\u0248", "\\u0249",
    "\\u024a", "\\u024b", "\\u024c", "\\u024d", "\\u024e", "\\u024f",
    "\\u0250", "\\u0251", "\\u0252", "\\u0253", "\\u0254", "\\u0255",
    "\\u0256", "\\u0257", "\\u0258", "\\u0259", "\\u025a", "\\u025b",
    "\\u025c", "\\u025d", "\\u025e", "\\u025f", "\\u0260", "\\u0261",
    "\\u0262", "\\u0263", "\\u0264", "\\u0265", "\\u0266", "\\u0267",
    "\\u0268", "\\u0269", "\\u026a", "\\u026b", "\\u026c", "\\u026d",
    "\\u026e", "\\u026f", "\\u0270", "\\u0271", "\\u0272", "\\u0273",
    "\\u0274", "\\u0275", "\\u0276", "\\u0277", "\\u0278", "\\u0279",
    "\\u027a", "\\u027b", "\\u027c", "\\u027d", "\\u027e", "\\u027f",
    "\\u0280", "\\u0281", "\\u0282", "\\u0283", "\\u0284", "\\u0285",
    "\\u0286", "\\u0287", "\\u0288", "\\u0289", "\\u028a", "\\u028b",
    "\\u028c", "\\u028d", "\\u028e", "\\u028f", "\\u0290", "\\u0291",
    "\\u0292", "\\u0293", "\\u0296", "\\u0297", "\\u0298", "\\u0299",
    "\\u029a", "\\u029b", "\\u029c", "\\u029d", "\\u029e", "\\u029f",
    "\\u02a0", "\\u02a1", "\\u02a2", "\\u02a3", "\\u02a4", "\\u02a5",
    "\\u02a6", "\\u02a7", "\\u02a8", "\\u02a9", "\\u02aa", "\\u02ab",
    "\\u02ac", "\\u02ad", "\\u02ae", "\\u02af", "\\u02b0", "\\u02b1",
    "\\u02b2", "\\u02b3", "\\u02b4", "\\u02b5", "\\u02b6", "\\u02b7",
    "\\u02b8", "\\u02c0", "\\u02c1", "\\u02e0", "\\u02e1", "\\u02e2",
    "\\u02e3", "\\u02e4", "\\u0345", "\\u0370", "\\u0371", "\\u0372",
    "\\u0373", "\\u0376", "\\u0377", "\\u037a", "\\u037b", "\\u037c",
    "\\u037d", "\\u037f", "\\u0386", "\\u0388", "\\u0389", "\\u038a",
    "\\u038c", "\\u038e", "\\u038f", "\\u0390", "\\u0391", "\\u0392",
    "\\u0393", "\\u0394", "\\u0395", "\\u0396", "\\u0397", "\\u0398",
    "\\u0399", "\\u039a", "\\u039b", "\\u039c", "\\u039d", "\\u039e",
    "\\u039f", "\\u03a0", "\\u03a1", "\\u03a3", "\\u03a4", "\\u03a5",
    "\\u03a6", "\\u03a7", "\\u03a8", "\\u03a9", "\\u03aa", "\\u03ab",
    "\\u03ac", "\\u03ad", "\\u03ae", "\\u03af", "\\u03b0", "\\u03b1",
    "\\u03b2", "\\u03b3", "\\u03b4", "\\u03b5", "\\u03b6", "\\u03b7",
    "\\u03b8", "\\u03b9", "\\u03ba", "\\u03bb", "\\u03bc", "\\u03bd",
    "\\u03be", "\\u03bf", "\\u03c0", "\\u03c1", "\\u03c2", "\\u03c3",
    "\\u03c4", "\\u03c5", "\\u03c6", "\\u03c7", "\\u03c8", "\\u03c9",
    "\\u03ca", "\\u03cb", "\\u03cc", "\\u03cd", "\\u03ce", "\\u03cf",
    "\\u03d0", "\\u03d1", "\\u03d2", "\\u03d3", "\\u03d4", "\\u03d5",
    "\\u03d6", "\\u03d7", "\\u03d8", "\\u03d9", "\\u03da", "\\u03db",
    "\\u03dc", "\\u03dd", "\\u03de", "\\u03df", "\\u03e0", "\\u03e1",
    "\\u03e2", "\\u03e3", "\\u03e4", "\\u03e5", "\\u03e6", "\\u03e7",
    "\\u03e8", "\\u03e9", "\\u03ea", "\\u03eb", "\\u03ec", "\\u03ed",
    "\\u03ee", "\\u03ef", "\\u03f0", "\\u03f1", "\\u03f2", "\\u03f3",
    "\\u03f4", "\\u03f5", "\\u03f7", "\\u03f8", "\\u03f9", "\\u03fa",
    "\\u03fb", "\\u03fc", "\\u03fd", "\\u03fe", "\\u03ff", "\\u0400",
    "\\u0401", "\\u0402", "\\u0403", "\\u0404", "\\u0405", "\\u0406",
    "\\u0407", "\\u0408", "\\u0409", "\\u040a", "\\u040b", "\\u040c",
    "\\u040d", "\\u040e", "\\u040f", "\\u0410", "\\u0411", "\\u0412",
    "\\u0413", "\\u0414", "\\u0415", "\\u0416", "\\u0417", "\\u0418",
    "\\u0419", "\\u041a", "\\u041b", "\\u041c", "\\u041d", "\\u041e",
    "\\u041f", "\\u0420", "\\u0421", "\\u0422", "\\u0423", "\\u0424",
    "\\u0425", "\\u0426", "\\u0427", "\\u0428", "\\u0429", "\\u042a",
    "\\u042b", "\\u042c", "\\u042d", "\\u042e", "\\u042f", "\\u0430",
    "\\u0431", "\\u0432", "\\u0433", "\\u0434", "\\u0435", "\\u0436",
    "\\u0437", "\\u0438", "\\u0439", "\\u043a", "\\u043b", "\\u043c",
    "\\u043d", "\\u043e", "\\u043f", "\\u0440", "\\u0441", "\\u0442",
    "\\u0443", "\\u0444", "\\u0445", "\\u0446", "\\u0447", "\\u0448",
    "\\u0449", "\\u044a", "\\u044b", "\\u044c", "\\u044d", "\\u044e",
    "\\u044f", "\\u0450", "\\u0451", "\\u0452", "\\u0453", "\\u0454",
    "\\u0455", "\\u0456", "\\u0457", "\\u0458", "\\u0459", "\\u045a",
    "\\u045b", "\\u045c", "\\u045d", "\\u045e", "\\u045f", "\\u0460",
    "\\u0461", "\\u0462", "\\u0463", "\\u0464", "\\u0465", "\\u0466",
    "\\u0467", "\\u0468", "\\u0469", "\\u046a", "\\u046b", "\\u046c",
    "\\u046d", "\\u046e", "\\u046f", "\\u0470", "\\u0471", "\\u0472",
    "\\u0473", "\\u0474", "\\u0475", "\\u0476", "\\u0477", "\\u0478",
    "\\u0479", "\\u047a", "\\u047b", "\\u047c", "\\u047d", "\\u047e",
    "\\u047f", "\\u0480", "\\u0481", "\\u048a", "\\u048b", "\\u048c",
    "\\u048d", "\\u048e", "\\u048f", "\\u0490", "\\u0491", "\\u0492",
    "\\u0493", "\\u0494", "\\u0495", "\\u0496", "\\u0497", "\\u0498",
    "\\u0499", "\\u049a", "\\u049b", "\\u049c", "\\u049d", "\\u049e",
    "\\u049f", "\\u04a0", "\\u04a1", "\\u04a2", "\\u04a3", "\\u04a4",
    "\\u04a5", "\\u04a6", "\\u04a7", "\\u04a8", "\\u04a9", "\\u04aa",
    "\\u04ab", "\\u04ac", "\\u04ad", "\\u04ae", "\\u04af", "\\u04b0",
    "\\u04b1", "\\u04b2", "\\u04b3", "\\u04b4", "\\u04b5", "\\u04b6",
    "\\u04b7", "\\u04b8", "\\u04b9", "\\u04ba", "\\u04bb", "\\u04bc",
    "\\u04bd", "\\u04be", "\\u04bf", "\\u04c0", "\\u04c1", "\\u04c2",
    "\\u04c3", "\\u04c4", "\\u04c5", "\\u04c6", "\\u04c7", "\\u04c8",
    "\\u04c9", "\\u04ca", "\\u04cb", "\\u04cc", "\\u04cd", "\\u04ce",
    "\\u04cf", "\\u04d0", "\\u04d1", "\\u04d2", "\\u04d3", "\\u04d4",
    "\\u04d5", "\\u04d6", "\\u04d7", "\\u04d8", "\\u04d9", "\\u04da",
    "\\u04db", "\\u04dc", "\\u04dd", "\\u04de", "\\u04df", "\\u04e0",
    "\\u04e1", "\\u04e2", "\\u04e3", "\\u04e4", "\\u04e5", "\\u04e6",
    "\\u04e7", "\\u04e8", "\\u04e9", "\\u04ea", "\\u04eb", "\\u04ec",
    "\\u04ed", "\\u04ee", "\\u04ef", "\\u04f0", "\\u04f1", "\\u04f2",
    "\\u04f3", "\\u04f4", "\\u04f5", "\\u04f6", "\\u04f7", "\\u04f8",
    "\\u04f9", "\\u04fa", "\\u04fb", "\\u04fc", "\\u04fd", "\\u04fe",
    "\\u04ff", "\\u0500", "\\u0501", "\\u0502", "\\u0503", "\\u0504",
    "\\u0505", "\\u0506", "\\u0507", "\\u0508", "\\u0509", "\\u050a",
    "\\u050b", "\\u050c", "\\u050d", "\\u050e", "\\u050f", "\\u0510",
    "\\u0511", "\\u0512", "\\u0513", "\\u0514", "\\u0515", "\\u0516",
    "\\u0517", "\\u0518", "\\u0519", "\\u051a", "\\u051b", "\\u051c",
    "\\u051d", "\\u051e", "\\u051f", "\\u0520", "\\u0521", "\\u0522",
    "\\u0523", "\\u0524", "\\u0525", "\\u0526", "\\u0527", "\\u0528",
    "\\u0529", "\\u052a", "\\u052b", "\\u052c", "\\u052d", "\\u052e",
    "\\u052f", "\\u0531", "\\u0532", "\\u0533", "\\u0534", "\\u0535",
    "\\u0536", "\\u0537", "\\u0538", "\\u0539", "\\u053a", "\\u053b",
    "\\u053c", "\\u053d", "\\u053e", "\\u053f", "\\u0540", "\\u0541",
    "\\u0542", "\\u0543", "\\u0544", "\\u0545", "\\u0546", "\\u0547",
    "\\u0548", "\\u0549", "\\u054a", "\\u054b", "\\u054c", "\\u054d",
    "\\u054e", "\\u054f", "\\u0550", "\\u0551", "\\u0552", "\\u0553",
    "\\u0554", "\\u0555", "\\u0556", "\\u0560", "\\u0561", "\\u0562",
    "\\u0563", "\\u0564", "\\u0565", "\\u0566", "\\u0567", "\\u0568",
    "\\u0569", "\\u056a", "\\u056b", "\\u056c", "\\u056d", "\\u056e",
    "\\u056f", "\\u0570", "\\u0571", "\\u0572", "\\u0573", "\\u0574",
    "\\u0575", "\\u0576", "\\u0577", "\\u0578", "\\u0579", "\\u057a",
    "\\u057b", "\\u057c", "\\u057d", "\\u057e", "\\u057f", "\\u0580",
    "\\u0581", "\\u0582", "\\u0583", "\\u0584", "\\u0585", "\\u0586",
    "\\u0587", "\\u0588", "\\u10a0", "\\u10a1", "\\u10a2", "\\u10a3",
    "\\u10a4", "\\u10a5", "\\u10a6", "\\u10a7", "\\u10a8", "\\u10a9",
    "\\u10aa", "\\u10ab", "\\u10ac", "\\u10ad", "\\u10ae", "\\u10af",
    "\\u10b0", "\\u10b1", "\\u10b2", "\\u10b3", "\\u10b4", "\\u10b5",
    "\\u10b6", "\\u10b7", "\\u10b8", "\\u10b9", "\\u10ba", "\\u10bb",
    "\\u10bc", "\\u10bd", "\\u10be", "\\u10bf", "\\u10c0", "\\u10c1",
    "\\u10c2", "\\u10c3", "\\u10c4", "\\u10c5", "\\u10c7", "\\u10cd",
    "\\u10d0", "\\u10d1", "\\u10d2", "\\u10d3", "\\u10d4", "\\u10d5",
    "\\u10d6", "\\u10d7", "\\u10d8", "\\u10d9", "\\u10da", "\\u10db",
    "\\u10dc", "\\u10dd", "\\u10de", "\\u10df", "\\u10e0", "\\u10e1",
    "\\u10e2", "\\u10e3", "\\u10e4", "\\u10e5", "\\u10e6", "\\u10e7",
    "\\u10e8", "\\u10e9", "\\u10ea", "\\u10eb", "\\u10ec", "\\u10ed",
    "\\u10ee", "\\u10ef", "\\u10f0", "\\u10f1", "\\u10f2", "\\u10f3",
    "\\u10f4", "\\u10f5", "\\u10f6", "\\u10f7", "\\u10f8", "\\u10f9",
    "\\u10fa", "\\u10fc", "\\u10fd", "\\u10fe", "\\u10ff", "\\u13a0",
    "\\u13a1", "\\u13a2", "\\u13a3", "\\u13a4", "\\u13a5", "\\u13a6",
    "\\u13a7", "\\u13a8", "\\u13a9", "\\u13aa", "\\u13ab", "\\u13ac",
    "\\u13ad", "\\u13ae", "\\u13af", "\\u13b0", "\\u13b1", "\\u13b2",
    "\\u13b3", "\\u13b4", "\\u13b5", "\\u13b6", "\\u13b7", "\\u13b8",
    "\\u13b9", "\\u13ba", "\\u13bb", "\\u13bc", "\\u13bd", "\\u13be",
    "\\u13bf", "\\u13c0", "\\u13c1", "\\u13c2", "\\u13c3", "\\u13c4",
    "\\u13c5", "\\u13c6", "\\u13c7", "\\u13c8", "\\u13c9", "\\u13ca",
    "\\u13cb", "\\u13cc", "\\u13cd", "\\u13ce", "\\u13cf", "\\u13d0",
    "\\u13d1", "\\u13d2", "\\u13d3", "\\u13d4", "\\u13d5", "\\u13d6",
    "\\u13d7", "\\u13d8", "\\u13d9", "\\u13da", "\\u13db", "\\u13dc",
    "\\u13dd", "\\u13de", "\\u13df", "\\u13e0", "\\u13e1", "\\u13e2",
    "\\u13e3", "\\u13e4", "\\u13e5", "\\u13e6", "\\u13e7", "\\u13e8",
    "\\u13e9", "\\u13ea", "\\u13eb", "\\u13ec", "\\u13ed", "\\u13ee",
    "\\u13ef", "\\u13f0", "\\u13f1", "\\u13f2", "\\u13f3", "\\u13f4",
    "\\u13f5", "\\u13f8", "\\u13f9", "\\u13fa", "\\u13fb", "\\u13fc",
    "\\u13fd", "\\u1c80", "\\u1c81", "\\u1c82", "\\u1c83", "\\u1c84",
    "\\u1c85", "\\u1c86", "\\u1c87", "\\u1c88", "\\u1c89", "\\u1c8a",
    "\\u1c90", "\\u1c91", "\\u1c92", "\\u1c93", "\\u1c94", "\\u1c95",
    "\\u1c96", "\\u1c97", "\\u1c98", "\\u1c99", "\\u1c9a", "\\u1c9b",
    "\\u1c9c", "\\u1c9d", "\\u1c9e", "\\u1c9f", "\\u1ca0", "\\u1ca1",
    "\\u1ca2", "\\u1ca3", "\\u1ca4", "\\u1ca5", "\\u1ca6", "\\u1ca7",
    "\\u1ca8", "\\u1ca9", "\\u1caa", "\\u1cab", "\\u1cac", "\\u1cad",
    "\\u1cae", "\\u1caf", "\\u1cb0", "\\u1cb1", "\\u1cb2", "\\u1cb3",
    "\\u1cb4", "\\u1cb5", "\\u1cb6", "\\u1cb7", "\\u1cb8", "\\u1cb9",
    "\\u1cba", "\\u1cbd", "\\u1cbe", "\\u1cbf", "\\u1d00", "\\u1d01",
    "\\u1d02", "\\u1d03", "\\u1d04", "\\u1d05", "\\u1d06", "\\u1d07",
    "\\u1d08", "\\u1d09", "\\u1d0a", "\\u1d0b", "\\u1d0c", "\\u1d0d",
    "\\u1d0e", "\\u1d0f", "\\u1d10", "\\u1d11", "\\u1d12", "\\u1d13",
    "\\u1d14", "\\u1d15", "\\u1d16", "\\u1d17", "\\u1d18", "\\u1d19",
    "\\u1d1a", "\\u1d1b", "\\u1d1c", "\\u1d1d", "\\u1d1e", "\\u1d1f",
    "\\u1d20", "\\u1d21", "\\u1d22", "\\u1d23", "\\u1d24", "\\u1d25",
    "\\u1d26", "\\u1d27", "\\u1d28", "\\u1d29", "\\u1d2a", "\\u1d2b",
    "\\u1d2c", "\\u1d2d", "\\u1d2e", "\\u1d2f", "\\u1d30", "\\u1d31",
    "\\u1d32", "\\u1d33", "\\u1d34", "\\u1d35", "\\u1d36", "\\u1d37",
    "\\u1d38", "\\u1d39", "\\u1d3a", "\\u1d3b", "\\u1d3c", "\\u1d3d",
    "\\u1d3e", "\\u1d3f", "\\u1d40", "\\u1d41", "\\u1d42", "\\u1d43",
    "\\u1d44", "\\u1d45", "\\u1d46", "\\u1d47", "\\u1d48", "\\u1d49",
    "\\u1d4a", "\\u1d4b", "\\u1d4c", "\\u1d4d", "\\u1d4e", "\\u1d4f",
    "\\u1d50", "\\u1d51", "\\u1d52", "\\u1d53", "\\u1d54", "\\u1d55",
    "\\u1d56", "\\u1d57", "\\u1d58", "\\u1d59", "\\u1d5a", "\\u1d5b",
    "\\u1d5c", "\\u1d5d", "\\u1d5e", "\\u1d5f", "\\u1d60", "\\u1d61",
    "\\u1d62", "\\u1d63", "\\u1d64", "\\u1d65", "\\u1d66", "\\u1d67",
    "\\u1d68", "\\u1d69", "\\u1d6a", "\\u1d6b", "\\u1d6c", "\\u1d6d",
    "\\u1d6e", "\\u1d6f", "\\u1d70", "\\u1d71", "\\u1d72", "\\u1d73",
    "\\u1d74", "\\u1d75", "\\u1d76", "\\u1d77", "\\u1d78", "\\u1d79",
    "\\u1d7a", "\\u1d7b", "\\u1d7c", "\\u1d7d", "\\u1d7e", "\\u1d7f",
    "\\u1d80", "\\u1d81", "\\u1d82", "\\u1d83", "\\u1d84", "\\u1d85",
    "\\u1d86", "\\u1d87", "\\u1d88", "\\u1d89", "\\u1d8a", "\\u1d8b",
    "\\u1d8c", "\\u1d8d", "\\u1d8e", "\\u1d8f", "\\u1d90", "\\u1d91",
    "\\u1d92", "\\u1d93", "\\u1d94", "\\u1d95", "\\u1d96", "\\u1d97",
    "\\u1d98", "\\u1d99", "\\u1d9a", "\\u1d9b", "\\u1d9c", "\\u1d9d",
    "\\u1d9e", "\\u1d9f", "\\u1da0", "\\u1da1", "\\u1da2", "\\u1da3",
    "\\u1da4", "\\u1da5", "\\u1da6", "\\u1da7", "\\u1da8", "\\u1da9",
    "\\u1daa", "\\u1dab", "\\u1dac", "\\u1dad", "\\u1dae", "\\u1daf",
    "\\u1db0", "\\u1db1", "\\u1db2", "\\u1db3", "\\u1db4", "\\u1db5",
    "\\u1db6", "\\u1db7", "\\u1db8", "\\u1db9", "\\u1dba", "\\u1dbb",
    "\\u1dbc", "\\u1dbd", "\\u1dbe", "\\u1dbf", "\\u1e00", "\\u1e01",
    "\\u1e02", "\\u1e03", "\\u1e04", "\\u1e05", "\\u1e06", "\\u1e07",
    "\\u1e08", "\\u1e09", "\\u1e0a", "\\u1e0b", "\\u1e0c", "\\u1e0d",
    "\\u1e0e", "\\u1e0f", "\\u1e10", "\\u1e11", "\\u1e12", "\\u1e13",
    "\\u1e14", "\\u1e15", "\\u1e16", "\\u1e17", "\\u1e18", "\\u1e19",
    "\\u1e1a", "\\u1e1b", "\\u1e1c", "\\u1e1d", "\\u1e1e", "\\u1e1f",
    "\\u1e20", "\\u1e21", "\\u1e22", "\\u1e23", "\\u1e24", "\\u1e25",
    "\\u1e26", "\\u1e27", "\\u1e28", "\\u1e29", "\\u1e2a", "\\u1e2b",
    "\\u1e2c", "\\u1e2d", "\\u1e2e", "\\u1e2f", "\\u1e30", "\\u1e31",
    "\\u1e32", "\\u1e33", "\\u1e34", "\\u1e35", "\\u1e36", "\\u1e37",
    "\\u1e38", "\\u1e39", "\\u1e3a", "\\u1e3b", "\\u1e3c", "\\u1e3d",
    "\\u1e3e", "\\u1e3f", "\\u1e40", "\\u1e41", "\\u1e42", "\\u1e43",
    "\\u1e44", "\\u1e45", "\\u1e46", "\\u1e47", "\\u1e48", "\\u1e49",
    "\\u1e4a", "\\u1e4b", "\\u1e4c", "\\u1e4d", "\\u1e4e", "\\u1e4f",
    "\\u1e50", "\\u1e51", "\\u1e52", "\\u1e53", "\\u1e54", "\\u1e55",
    "\\u1e56", "\\u1e57", "\\u1e58", "\\u1e59", "\\u1e5a", "\\u1e5b",
    "\\u1e5c", "\\u1e5d", "\\u1e5e", "\\u1e5f", "\\u1e60", "\\u1e61",
    "\\u1e62", "\\u1e63", "\\u1e64", "\\u1e65", "\\u1e66", "\\u1e67",
    "\\u1e68", "\\u1e69", "\\u1e6a", "\\u1e6b", "\\u1e6c", "\\u1e6d",
    "\\u1e6e", "\\u1e6f", "\\u1e70", "\\u1e71", "\\u1e72", "\\u1e73",
    "\\u1e74", "\\u1e75", "\\u1e76", "\\u1e77", "\\u1e78", "\\u1e79",
    "\\u1e7a", "\\u1e7b", "\\u1e7c", "\\u1e7d", "\\u1e7e", "\\u1e7f",
    "\\u1e80", "\\u1e81", "\\u1e82", "\\u1e83", "\\u1e84", "\\u1e85",
    "\\u1e86", "\\u1e87", "\\u1e88", "\\u1e89", "\\u1e8a", "\\u1e8b",
    "\\u1e8c", "\\u1e8d", "\\u1e8e", "\\u1e8f", "\\u1e90", "\\u1e91",
    "\\u1e92", "\\u1e93", "\\u1e94", "\\u1e95", "\\u1e96", "\\u1e97",
    "\\u1e98", "\\u1e99", "\\u1e9a", "\\u1e9b", "\\u1e9c", "\\u1e9d",
    "\\u1e9e", "\\u1e9f", "\\u1ea0", "\\u1ea1", "\\u1ea2", "\\u1ea3",
    "\\u1ea4", "\\u1ea5", "\\u1ea6", "\\u1ea7", "\\u1ea8", "\\u1ea9",
    "\\u1eaa", "\\u1eab", "\\u1eac", "\\u1ead", "\\u1eae", "\\u1eaf",
    "\\u1eb0", "\\u1eb1", "\\u1eb2", "\\u1eb3", "\\u1eb4", "\\u1eb5",
    "\\u1eb6", "\\u1eb7", "\\u1eb8", "\\u1eb9", "\\u1eba", "\\u1ebb",
    "\\u1ebc", "\\u1ebd", "\\u1ebe", "\\u1ebf", "\\u1ec0", "\\u1ec1",
    "\\u1ec2", "\\u1ec3", "\\u1ec4", "\\u1ec5", "\\u1ec6", "\\u1ec7",
    "\\u1ec8", "\\u1ec9", "\\u1eca", "\\u1ecb", "\\u1ecc", "\\u1ecd",
    "\\u1ece", "\\u1ecf", "\\u1ed0", "\\u1ed1", "\\u1ed2", "\\u1ed3",
    "\\u1ed4", "\\u1ed5", "\\u1ed6", "\\u1ed7", "\\u1ed8", "\\u1ed9",
    "\\u1eda", "\\u1edb", "\\u1edc", "\\u1edd", "\\u1ede", "\\u1edf",
    "\\u1ee0", "\\u1ee1", "\\u1ee2", "\\u1ee3", "\\u1ee4", "\\u1ee5",
    "\\u1ee6", "\\u1ee7", "\\u1ee8", "\\u1ee9", "\\u1eea", "\\u1eeb",
    "\\u1eec", "\\u1eed", "\\u1eee", "\\u1eef", "\\u1ef0", "\\u1ef1",
    "\\u1ef2", "\\u1ef3", "\\u1ef4", "\\u1ef5", "\\u1ef6", "\\u1ef7",
    "\\u1ef8", "\\u1ef9", "\\u1efa", "\\u1efb", "\\u1efc", "\\u1efd",
    "\\u1efe", "\\u1eff", "\\u1f00", "\\u1f01", "\\u1f02", "\\u1f03",
    "\\u1f04", "\\u1f05", "\\u1f06", "\\u1f07", "\\u1f08", "\\u1f09",
    "\\u1f0a", "\\u1f0b", "\\u1f0c", "\\u1f0d", "\\u1f0e", "\\u1f0f",
    "\\u1f10", "\\u1f11", "\\u1f12", "\\u1f13", "\\u1f14", "\\u1f15",
    "\\u1f18", "\\u1f19", "\\u1f1a", "\\u1f1b", "\\u1f1c", "\\u1f1d",
    "\\u1f20", "\\u1f21", "\\u1f22", "\\u1f23", "\\u1f24", "\\u1f25",
    "\\u1f26", "\\u1f27", "\\u1f28", "\\u1f29", "\\u1f2a", "\\u1f2b",
    "\\u1f2c", "\\u1f2d", "\\u1f2e", "\\u1f2f", "\\u1f30", "\\u1f31",
    "\\u1f32", "\\u1f33", "\\u1f34", "\\u1f35", "\\u1f36", "\\u1f37",
    "\\u1f38", "\\u1f39", "\\u1f3a", "\\u1f3b", "\\u1f3c", "\\u1f3d",
    "\\u1f3e", "\\u1f3f", "\\u1f40", "\\u1f41", "\\u1f42", "\\u1f43",
    "\\u1f44", "\\u1f45", "\\u1f48", "\\u1f49", "\\u1f4a", "\\u1f4b",
    "\\u1f4c", "\\u1f4d", "\\u1f50", "\\u1f51", "\\u1f52", "\\u1f53",
    "\\u1f54", "\\u1f55", "\\u1f56", "\\u1f57", "\\u1f59", "\\u1f5b",
    "\\u1f5d", "\\u1f5f", "\\u1f60", "\\u1f61", "\\u1f62", "\\u1f63",
    "\\u1f64", "\\u1f65", "\\u1f66", "\\u1f67", "\\u1f68", "\\u1f69",
    "\\u1f6a", "\\u1f6b", "\\u1f6c", "\\u1f6d", "\\u1f6e", "\\u1f6f",
    "\\u1f70", "\\u1f71", "\\u1f72", "\\u1f73", "\\u1f74", "\\u1f75",
    "\\u1f76", "\\u1f77", "\\u1f78", "\\u1f79", "\\u1f7a", "\\u1f7b",
    "\\u1f7c", "\\u1f7d", "\\u1f80", "\\u1f81", "\\u1f82", "\\u1f83",
    "\\u1f84", "\\u1f85", "\\u1f86", "\\u1f87", "\\u1f88", "\\u1f89",
    "\\u1f8a", "\\u1f8b", "\\u1f8c", "\\u1f8d", "\\u1f8e", "\\u1f8f",
    "\\u1f90", "\\u1f91", "\\u1f92", "\\u1f93", "\\u1f94", "\\u1f95",
    "\\u1f96", "\\u1f97", "\\u1f98", "\\u1f99", "\\u1f9a", "\\u1f9b",
    "\\u1f9c", "\\u1f9d", "\\u1f9e", "\\u1f9f", "\\u1fa0", "\\u1fa1",
    "\\u1fa2", "\\u1fa3", "\\u1fa4", "\\u1fa5", "\\u1fa6", "\\u1fa7",
    "\\u1fa8", "\\u1fa9", "\\u1faa", "\\u1fab", "\\u1fac", "\\u1fad",
    "\\u1fae", "\\u1faf", "\\u1fb0", "\\u1fb1", "\\u1fb2", "\\u1fb3",
    "\\u1fb4", "\\u1fb6", "\\u1fb7", "\\u1fb8", "\\u1fb9", "\\u1fba",
    "\\u1fbb", "\\u1fbc", "\\u1fbe", "\\u1fc2", "\\u1fc3", "\\u1fc4",
    "\\u1fc6", "\\u1fc7", "\\u1fc8", "\\u1fc9", "\\u1fca", "\\u1fcb",
    "\\u1fcc", "\\u1fd0", "\\u1fd1", "\\u1fd2", "\\u1fd3", "\\u1fd6",
    "\\u1fd7", "\\u1fd8", "\\u1fd9", "\\u1fda", "\\u1fdb", "\\u1fe0",
    "\\u1fe1", "\\u1fe2", "\\u1fe3", "\\u1fe4", "\\u1fe5", "\\u1fe6",
    "\\u1fe7", "\\u1fe8", "\\u1fe9", "\\u1fea", "\\u1feb", "\\u1fec",
    "\\u1ff2", "\\u1ff3", "\\u1ff4", "\\u1ff6", "\\u1ff7", "\\u1ff8",
    "\\u1ff9", "\\u1ffa", "\\u1ffb", "\\u1ffc", "\\u2071", "\\u207f",
    "\\u2090", "\\u2091", "\\u2092", "\\u2093", "\\u2094", "\\u2095",
    "\\u2096", "\\u2097", "\\u2098", "\\u2099", "\\u209a", "\\u209b",
    "\\u209c", "\\u2102", "\\u2107", "\\u210a", "\\u210b", "\\u210c",
    "\\u210d", "\\u210e", "\\u210f", "\\u2110", "\\u2111", "\\u2112",
    "\\u2113", "\\u2115", "\\u2119", "\\u211a", "\\u211b", "\\u211c",
    "\\u211d", "\\u2124", "\\u2126", "\\u2128", "\\u212a", "\\u212b",
    "\\u212c", "\\u212d", "\\u212f", "\\u2130", "\\u2131", "\\u2132",
    "\\u2133", "\\u2134", "\\u2139", "\\u213c", "\\u213d", "\\u213e",
    "\\u213f", "\\u2145", "\\u2146", "\\u2147", "\\u2148", "\\u2149",
    "\\u214e", "\\u2160", "\\u2161", "\\u2162", "\\u2163", "\\u2164",
    "\\u2165", "\\u2166", "\\u2167", "\\u2168", "\\u2169", "\\u216a",
    "\\u216b", "\\u216c", "\\u216d", "\\u216e", "\\u216f", "\\u2170",
    "\\u2171", "\\u2172", "\\u2173", "\\u2174", "\\u2175", "\\u2176",
    "\\u2177", "\\u2178", "\\u2179", "\\u217a", "\\u217b", "\\u217c",
    "\\u217d", "\\u217e", "\\u217f", "\\u2183", "\\u2184", "\\u24b6",
    "\\u24b7", "\\u24b8", "\\u24b9", "\\u24ba", "\\u24bb", "\\u24bc",
    "\\u24bd", "\\u24be", "\\u24bf", "\\u24c0", "\\u24c1", "\\u24c2",
    "\\u24c3", "\\u24c4", "\\u24c5", "\\u24c6", "\\u24c7", "\\u24c8",
    "\\u24c9", "\\u24ca", "\\u24cb", "\\u24cc", "\\u24cd", "\\u24ce",
    "\\u24cf", "\\u24d0", "\\u24d1", "\\u24d2", "\\u24d3", "\\u24d4",
    "\\u24d5", "\\u24d6", "\\u24d7", "\\u24d8", "\\u24d9", "\\u24da",
    "\\u24db", "\\u24dc", "\\u24dd", "\\u24de", "\\u24df", "\\u24e0",
    "\\u24e1", "\\u24e2", "\\u24e3", "\\u24e4", "\\u24e5", "\\u24e6",
    "\\u24e7", "\\u24e8", "\\u24e9", "\\u2c00", "\\u2c01", "\\u2c02",
    "\\u2c03", "\\u2c04", "\\u2c05", "\\u2c06", "\\u2c07", "\\u2c08",
    "\\u2c09", "\\u2c0a", "\\u2c0b", "\\u2c0c", "\\u2c0d", "\\u2c0e",
    "\\u2c0f", "\\u2c10", "\\u2c11", "\\u2c12", "\\u2c13", "\\u2c14",
    "\\u2c15", "\\u2c16", "\\u2c17", "\\u2c18", "\\u2c19", "\\u2c1a",
    "\\u2c1b", "\\u2c1c", "\\u2c1d", "\\u2c1e", "\\u2c1f", "\\u2c20",
    "\\u2c21", "\\u2c22", "\\u2c23", "\\u2c24", "\\u2c25", "\\u2c26",
    "\\u2c27", "\\u2c28", "\\u2c29", "\\u2c2a", "\\u2c2b", "\\u2c2c",
    "\\u2c2d", "\\u2c2e", "\\u2c2f", "\\u2c30", "\\u2c31", "\\u2c32",
    "\\u2c33", "\\u2c34", "\\u2c35", "\\u2c36", "\\u2c37", "\\u2c38",
    "\\u2c39", "\\u2c3a", "\\u2c3b", "\\u2c3c", "\\u2c3d", "\\u2c3e",
    "\\u2c3f", "\\u2c40", "\\u2c41", "\\u2c42", "\\u2c43", "\\u2c44",
    "\\u2c45", "\\u2c46", "\\u2c47", "\\u2c48", "\\u2c49", "\\u2c4a",
    "\\u2c4b", "\\u2c4c", "\\u2c4d", "\\u2c4e", "\\u2c4f", "\\u2c50",
    "\\u2c51", "\\u2c52", "\\u2c53", "\\u2c54", "\\u2c55", "\\u2c56",
    "\\u2c57", "\\u2c58", "\\u2c59", "\\u2c5a", "\\u2c5b", "\\u2c5c",
    "\\u2c5d", "\\u2c5e", "\\u2c5f", "\\u2c60", "\\u2c61", "\\u2c62",
    "\\u2c63", "\\u2c64", "\\u2c65", "\\u2c66", "\\u2c67", "\\u2c68",
    "\\u2c69", "\\u2c6a", "\\u2c6b", "\\u2c6c", "\\u2c6d", "\\u2c6e",
    "\\u2c6f", "\\u2c70", "\\u2c71", "\\u2c72", "\\u2c73", "\\u2c74",
    "\\u2c75", "\\u2c76", "\\u2c77", "\\u2c78", "\\u2c79", "\\u2c7a",
    "\\u2c7b", "\\u2c7c", "\\u2c7d", "\\u2c7e", "\\u2c7f", "\\u2c80",
    "\\u2c81", "\\u2c82", "\\u2c83", "\\u2c84", "\\u2c85", "\\u2c86",
    "\\u2c87", "\\u2c88", "\\u2c89", "\\u2c8a", "\\u2c8b", "\\u2c8c",
    "\\u2c8d", "\\u2c8e", "\\u2c8f", "\\u2c90", "\\u2c91", "\\u2c92",
    "\\u2c93", "\\u2c94", "\\u2c95", "\\u2c96", "\\u2c97", "\\u2c98",
    "\\u2c99", "\\u2c9a", "\\u2c9b", "\\u2c9c", "\\u2c9d", "\\u2c9e",
    "\\u2c9f", "\\u2ca0", "\\u2ca1", "\\u2ca2", "\\u2ca3", "\\u2ca4",
    "\\u2ca5", "\\u2ca6", "\\u2ca7", "\\u2ca8", "\\u2ca9", "\\u2caa",
    "\\u2cab", "\\u2cac", "\\u2cad", "\\u2cae", "\\u2caf", "\\u2cb0",
    "\\u2cb1", "\\u2cb2", "\\u2cb3", "\\u2cb4", "\\u2cb5", "\\u2cb6",
    "\\u2cb7", "\\u2cb8", "\\u2cb9", "\\u2cba", "\\u2cbb", "\\u2cbc",
    "\\u2cbd", "\\u2cbe", "\\u2cbf", "\\u2cc0", "\\u2cc1", "\\u2cc2",
    "\\u2cc3", "\\u2cc4", "\\u2cc5", "\\u2cc6", "\\u2cc7", "\\u2cc8",
    "\\u2cc9", "\\u2cca", "\\u2ccb", "\\u2ccc", "\\u2ccd", "\\u2cce",
    "\\u2ccf", "\\u2cd0", "\\u2cd1", "\\u2cd2", "\\u2cd3", "\\u2cd4",
    "\\u2cd5", "\\u2cd6", "\\u2cd7", "\\u2cd8", "\\u2cd9", "\\u2cda",
    "\\u2cdb", "\\u2cdc", "\\u2cdd", "\\u2cde", "\\u2cdf", "\\u2ce0",
    "\\u2ce1", "\\u2ce2", "\\u2ce3", "\\u2ce4", "\\u2ceb", "\\u2cec",
    "\\u2ced", "\\u2cee", "\\u2cf2", "\\u2cf3", "\\u2d00", "\\u2d01",
    "\\u2d02", "\\u2d03", "\\u2d04", "\\u2d05", "\\u2d06", "\\u2d07",
    "\\u2d08", "\\u2d09", "\\u2d0a", "\\u2d0b", "\\u2d0c", "\\u2d0d",
    "\\u2d0e", "\\u2d0f", "\\u2d10", "\\u2d11", "\\u2d12", "\\u2d13",
    "\\u2d14", "\\u2d15", "\\u2d16", "\\u2d17", "\\u2d18", "\\u2d19",
    "\\u2d1a", "\\u2d1b", "\\u2d1c", "\\u2d1d", "\\u2d1e", "\\u2d1f",
    "\\u2d20", "\\u2d21", "\\u2d22", "\\u2d23", "\\u2d24", "\\u2d25",
    "\\u2d27", "\\u2d2d", "\\ua640", "\\ua641", "\\ua642", "\\ua643",
    "\\ua644", "\\ua645", "\\ua646", "\\ua647", "\\ua648", "\\ua649",
    "\\ua64a", "\\ua64b", "\\ua64c", "\\ua64d", "\\ua64e", "\\ua64f",
    "\\ua650", "\\ua651", "\\ua652", "\\ua653", "\\ua654", "\\ua655",
    "\\ua656", "\\ua657", "\\ua658", "\\ua659", "\\ua65a", "\\ua65b",
    "\\ua65c", "\\ua65d", "\\ua65e", "\\ua65f", "\\ua660", "\\ua661",
    "\\ua662", "\\ua663", "\\ua664", "\\ua665", "\\ua666", "\\ua667",
    "\\ua668", "\\ua669", "\\ua66a", "\\ua66b", "\\ua66c", "\\ua66d",
    "\\ua680", "\\ua681", "\\ua682", "\\ua683", "\\ua684", "\\ua685",
    "\\ua686", "\\ua687", "\\ua688", "\\ua689", "\\ua68a", "\\ua68b",
    "\\ua68c", "\\ua68d", "\\ua68e", "\\ua68f", "\\ua690", "\\ua691",
    "\\ua692", "\\ua693", "\\ua694", "\\ua695", "\\ua696", "\\ua697",
    "\\ua698", "\\ua699", "\\ua69a", "\\ua69b", "\\ua69c", "\\ua69d",
    "\\ua722", "\\ua723", "\\ua724", "\\ua725", "\\ua726", "\\ua727",
    "\\ua728", "\\ua729", "\\ua72a", "\\ua72b", "\\ua72c", "\\ua72d",
    "\\ua72e", "\\ua72f", "\\ua730", "\\ua731", "\\ua732", "\\ua733",
    "\\ua734", "\\ua735", "\\ua736", "\\ua737", "\\ua738", "\\ua739",
    "\\ua73a", "\\ua73b", "\\ua73c", "\\ua73d", "\\ua73e", "\\ua73f",
    "\\ua740", "\\ua741", "\\ua742", "\\ua743", "\\ua744", "\\ua745",
    "\\ua746", "\\ua747", "\\ua748", "\\ua749", "\\ua74a", "\\ua74b",
    "\\ua74c", "\\ua74d", "\\ua74e", "\\ua74f", "\\ua750", "\\ua751",
    "\\ua752", "\\ua753", "\\ua754", "\\ua755", "\\ua756", "\\ua757",
    "\\ua758", "\\ua759", "\\ua75a", "\\ua75b", "\\ua75c", "\\ua75d",
    "\\ua75e", "\\ua75f", "\\ua760", "\\ua761", "\\ua762", "\\ua763",
    "\\ua764", "\\ua765", "\\ua766", "\\ua767", "\\ua768", "\\ua769",
    "\\ua76a", "\\ua76b", "\\ua76c", "\\ua76d", "\\ua76e", "\\ua76f",
    "\\ua770", "\\ua771", "\\ua772", "\\ua773", "\\ua774", "\\ua775",
    "\\ua776", "\\ua777", "\\ua778", "\\ua779", "\\ua77a", "\\ua77b",
    "\\ua77c", "\\ua77d", "\\ua77e", "\\ua77f", "\\ua780", "\\ua781",
    "\\ua782", "\\ua783", "\\ua784", "\\ua785", "\\ua786", "\\ua787",
    "\\ua78b", "\\ua78c", "\\ua78d", "\\ua78e", "\\ua790", "\\ua791",
    "\\ua792", "\\ua793", "\\ua794", "\\ua795", "\\ua796", "\\ua797",
    "\\ua798", "\\ua799", "\\ua79a", "\\ua79b", "\\ua79c", "\\ua79d",
    "\\ua79e", "\\ua79f", "\\ua7a0", "\\ua7a1", "\\ua7a2", "\\ua7a3",
    "\\ua7a4", "\\ua7a5", "\\ua7a6", "\\ua7a7", "\\ua7a8", "\\ua7a9",
    "\\ua7aa", "\\ua7ab", "\\ua7ac", "\\ua7ad", "\\ua7ae", "\\ua7af",
    "\\ua7b0", "\\ua7b1", "\\ua7b2", "\\ua7b3", "\\ua7b4", "\\ua7b5",
    "\\ua7b6", "\\ua7b7", "\\ua7b8", "\\ua7b9", "\\ua7ba", "\\ua7bb",
    "\\ua7bc", "\\ua7bd", "\\ua7be", "\\ua7bf", "\\ua7c0", "\\ua7c1",
    "\\ua7c2", "\\ua7c3", "\\ua7c4", "\\ua7c5", "\\ua7c6", "\\ua7c7",
    "\\ua7c8", "\\ua7c9", "\\ua7ca", "\\ua7cb", "\\ua7cc", "\\ua7cd",
    "\\ua7ce", "\\ua7cf", "\\ua7d0", "\\ua7d1", "\\ua7d2", "\\ua7d3",
    "\\ua7d4", "\\ua7d5", "\\ua7d6", "\\ua7d7", "\\ua7d8", "\\ua7d9",
    "\\ua7da", "\\ua7db", "\\ua7dc", "\\ua7f1", "\\ua7f2", "\\ua7f3",
    "\\ua7f4", "\\ua7f5", "\\ua7f6", "\\ua7f8", "\\ua7f9", "\\ua7fa",
    "\\uab30", "\\uab31", "\\uab32", "\\uab33", "\\uab34", "\\uab35",
    "\\uab36", "\\uab37", "\\uab38", "\\uab39", "\\uab3a", "\\uab3b",
    "\\uab3c", "\\uab3d", "\\uab3e", "\\uab3f", "\\uab40", "\\uab41",
    "\\uab42", "\\uab43", "\\uab44", "\\uab45", "\\uab46", "\\uab47",
    "\\uab48", "\\uab49", "\\uab4a", "\\uab4b", "\\uab4c", "\\uab4d",
    "\\uab4e", "\\uab4f", "\\uab50", "\\uab51", "\\uab52", "\\uab53",
    "\\uab54", "\\uab55", "\\uab56", "\\uab57", "\\uab58", "\\uab59",
    "\\uab5a", "\\uab5c", "\\uab5d", "\\uab5e", "\\uab5f", "\\uab60",
    "\\uab61", "\\uab62", "\\uab63", "\\uab64", "\\uab65", "\\uab66",
    "\\uab67", "\\uab68", "\\uab69", "\\uab70", "\\uab71", "\\uab72",
    "\\uab73", "\\uab74", "\\uab75", "\\uab76", "\\uab77", "\\uab78",
    "\\uab79", "\\uab7a", "\\uab7b", "\\uab7c", "\\uab7d", "\\uab7e",
    "\\uab7f", "\\uab80", "\\uab81", "\\uab82", "\\uab83", "\\uab84",
    "\\uab85", "\\uab86", "\\uab87", "\\uab88", "\\uab89", "\\uab8a",
    "\\uab8b", "\\uab8c", "\\uab8d", "\\uab8e", "\\uab8f", "\\uab90",
    "\\uab91", "\\uab92", "\\uab93", "\\uab94", "\\uab95", "\\uab96",
    "\\uab97", "\\uab98", "\\uab99", "\\uab9a", "\\uab9b", "\\uab9c",
    "\\uab9d", "\\uab9e", "\\uab9f", "\\uaba0", "\\uaba1", "\\uaba2",
    "\\uaba3", "\\uaba4", "\\uaba5", "\\uaba6", "\\uaba7", "\\uaba8",
    "\\uaba9", "\\uabaa", "\\uabab", "\\uabac", "\\uabad", "\\uabae",
    "\\uabaf", "\\uabb0", "\\uabb1", "\\uabb2", "\\uabb3", "\\uabb4",
    "\\uabb5", "\\uabb6", "\\uabb7", "\\uabb8", "\\uabb9", "\\uabba",
    "\\uabbb", "\\uabbc", "\\uabbd", "\\uabbe", "\\uabbf", "\\ufb00",
    "\\ufb01", "\\ufb02", "\\ufb03", "\\ufb04", "\\ufb05", "\\ufb06",
    "\\ufb13", "\\ufb14", "\\ufb15", "\\ufb16", "\\ufb17", "\\uff21",
    "\\uff22", "\\uff23", "\\uff24", "\\uff25", "\\uff26", "\\uff27",
    "\\uff28", "\\uff29", "\\uff2a", "\\uff2b", "\\uff2c", "\\uff2d",
    "\\uff2e", "\\uff2f", "\\uff30", "\\uff31", "\\uff32", "\\uff33",
    "\\uff34", "\\uff35", "\\uff36", "\\uff37", "\\uff38", "\\uff39",
    "\\uff3a", "\\uff41", "\\uff42", "\\uff43", "\\uff44", "\\uff45",
    "\\uff46", "\\uff47", "\\uff48", "\\uff49", "\\uff4a", "\\uff4b",
    "\\uff4c", "\\uff4d", "\\uff4e", "\\uff4f", "\\uff50", "\\uff51",
    "\\uff52", "\\uff53", "\\uff54", "\\uff55", "\\uff56", "\\uff57",
    "\\uff58", "\\uff59", "\\uff5a"}

\* the code units with the property Case_Ignorable of Unicode
CaseIgnorable ==
  {"'", ".", ":", "^", "\\u0060", "¨", "­", "¯", "´", "·", "¸", "\\u02b0",
    "\\u02b1", "\\u02b2", "\\u02b3", "\\u02b4", "\\u02b5", "\\u02b6",
    "\\u02b7", "\\u02b8", "\\u02b9", "\\u02ba", "\\u02bb", "\\u02bc",
    "\\u02bd", "\\u02be", "\\u02bf", "\\u02c0", "\\u02c1", "\\u02c2",
    "\\u02c3", "\\u02c4", "\\u02c5", "\\u02c6", "\\u02c7", "\\u02c8",
    "\\u02c9", "\\u02ca", "\\u02cb", "\\u02cc", "\\u02cd", "\\u02ce",
    "\\u02cf", "\\u02d0", "\\u02d1", "\\u02d2", "\\u02d3", "\\u02d4",
    "\\u02d5", "\\u02d6", "\\u02d7", "\\u02d8", "\\u02d9", "\\u02da",
    "\\u02db", "\\u02dc", "\\u02dd", "\\u02de", "\\u02df", "\\u02e0",
    "\\u02e1", "\\u02e2", "\\u02e3", "\\u02e4", "\\u02e5", "\\u02e6",
    "\\u02e7", "\\u02e8", "\\u02e9", "\\u02ea", "\\u02eb", "\\u02ec",
    "\\u02ed", "\\u02ee", "\\u02ef", "\\u02f0", "\\u02f1", "\\u02f2",
    "\\u02f3", "\\u02f4", "\\u02f5", "\\u02f6", "\\u02f7", "\\u02f8",
    "\\u02f9", "\\u02fa", "\\u02fb", "\\u02fc", "\\u02fd", "\\u02fe",
    "\\u02ff", "\\u0300", "\\u0301", "\\u0302", "\\u0303", "\\u0304",
    "\\u0305", "\\u0306", "\\u0307", "\\u0308", "\\u0309", "\\u030a",
    "\\u030b", "\\u030c", "\\u030d", "\\u030e", "\\u030f", "\\u0310",
    "\\u0311", "\\u0312", "\\u0313", "\\u0314", "\\u0315", "\\u0316",
    "\\u0317", "\\u0318", "\\u0319", "\\u031a", "\\u031b", "\\u031c",
    "\\u031d", "\\u031e", "\\u031f", "\\u0320", "\\u0321", "\\u0322",
    "\\u0323", "\\u0324", "\\u0325", "\\u0326", "\\u0327", "\\u0328",
    "\\u0329", "\\u032a", "\\u032b", "\\u032c", "\\u032d", "\\u032e",
    "\\u032f", "\\u0330", "\\u0331", "\\u0332", "\\u0333", "\\u0334",
    "\\u0335", "\\u0336", "\\u0337", "\\u0338", "\\u0339", "\\u033a",
    "\\u033b", "\\u033c", "\\u033d", "\\u033e", "\\u033f", "\\u0340",
    "\\u0341", "\\u0342", "\\u0343", "\\u0344", "\\u0345", "\\u0346",
    "\\u0347", "\\u0348", "\\u0349", "\\u034a", "\\u034b", "\\u034c",
    "\\u034d", "\\u034e", "\\u034f", "\\u0350", "\\u0351", "\\u0352",
    "\\u0353", "\\u0354", "\\u0355", "\\u0356", "\\u0357", "\\u0358",
    "\\u0359", "\\u035a", "\\u035b", "\\u035c", "\\u035d", "\\u035e",
    "\\u035f", "\\u0360", "\\u0361", "\\u0362", "\\u0363", "\\u0364",
    "\\u0365", "\\u0366", "\\u0367", "\\u0368", "\\u0369", "\\u036a",
    "\\u036b", "\\u036c", "\\u036d", "\\u036e", "\\u036f", "\\u0374",
    "\\u0375", "\\u037a", "\\u0384", "\\u0385", "\\u0387", "\\u0483",
    "\\u0484", "\\u0485", "\\u0486", "\\u0487", "\\u0488", "\\u0489",
    "\\u0559", "\\u055f", "\\u0591", "\\u0592", "\\u0593", "\\u0594",
    "\\u0595", "\\u0596", "\\u0597", "\\u0598", "\\u0599", "\\u059a",
    "\\u059b", "\\u059c", "\\u059d", "\\u059e", "\\u059f", "\\u05a0",
    "\\u05a1", "\\u05a2", "\\u05a3", "\\u05a4", "\\u05a5", "\\u05a6",
    "\\u05a7", "\\u05a8", "\\u05a9", "\\u05aa", "\\u05ab", "\\u05ac",
    "\\u05ad", "\\u05ae", "\\u05af", "\\u05b0", "\\u05b1", "\\u05b2",
    "\\u05b3", "\\u05b4", "\\u05b5", "\\u05b6", "\\u05b7", "\\u05b8",
    "\\u05b9", "\\u05ba", "\\u05bb", "\\u05bc", "\\u05bd", "\\u05bf",
    "\\u05c1", "\\u05c2", "\\u05c4", "\\u05c5", "\\u05c7", "\\u05f4",
    "\\u0600", "\\u0601", "\\u0602", "\\u0603", "\\u0604", "\\u0605",
    "\\u0610", "\\u0611", "\\u0612", "\\u0613", "\\u0614", "\\u0615",
    "\\u0616", "\\u0617", "\\u0618", "\\u0619", "\\u061a", "\\u061c",
    "\\u0640", "\\u064b", "\\u064c", "\\u064d", "\\u064e", "\\u064f",
    "\\u0650", "\\u0651", "\\u0652", "\\u0653", "\\u0654", "\\u0655",
    "\\u0656", "\\u0657", "\\u0658", "\\u0659", "\\u065a", "\\u065b",
    "\\u065c", "\\u065d", "\\u065e", "\\u065f", "\\u0670", "\\u06d6",
    "\\u06d7", "\\u06d8", "\\u06d9", "\\u06da", "\\u06db", "\\u06dc",
    "\\u06dd", "\\u06df", "\\u06e0", "\\u06e1", "\\u06e2", "\\u06e3",
    "\\u06e4", "\\u06e5", "\\u06e6", "\\u06e7", "\\u06e8", "\\u06ea",
    "\\u06eb", "\\u06ec", "\\u06ed", "\\u070f", "\\u0711", "\\u0730",
    "\\u0731", "\\u0732", "\\u0733", "\\u0734", "\\u0735", "\\u0736",
    "\\u0737", "\\u0738", "\\u0739", "\\u073a", "\\u073b", "\\u073c",
    "\\u073d", "\\u073e", "\\u073f", "\\u0740", "\\u0741", "\\u0742",
    "\\u0743", "\\u0744", "\\u0745", "\\u0746", "\\u0747", "\\u0748",
    "\\u0749", "\\u074a", "\\u07a6", "\\u07a7", "\\u07a8", "\\u07a9",
    "\\u07aa", "\\u07ab", "\\u07ac", "\\u07ad", "\\u07ae", "\\u07af",
    "\\u07b0", "\\u07eb", "\\u07ec", "\\u07ed", "\\u07ee", "\\u07ef",
    "\\u07f0", "\\u07f1", "\\u07f2", "\\u07f3", "\\u07f4", "\\u07f5",
    "\\u07fa", "\\u07fd", "\\u0816", "\\u0817", "\\u0818", "\\u0819",
    "\\u081a", "\\u081b", "\\u081c", "\\u081d", "\\u081e", "\\u081f",
    "\\u0820", "\\u0821", "\\u0822", "\\u0823", "\\u0824", "\\u0825",
    "\\u0826", "\\u0827", "\\u0828", "\\u0829", "\\u082a", "\\u082b",
    "\\u082c", "\\u082d", "\\u0859", "\\u085a", "\\u085b", "\\u0888",
    "\\u0890", "\\u0891", "\\u0897", "\\u0898", "\\u0899", "\\u089a",
    "\\u089b", "\\u089c", "\\u089d", "\\u089e", "\\u089f", "\\u08c9",
    "\\u08ca", "\\u08cb", "\\u08cc", "\\u08cd", "\\u08ce", "\\u08cf",
    "\\u08d0", "\\u08d1", "\\u08d2", "\\u08d3", "\\u08d4", "\\u08d5",
    "\\u08d6", "\\u08d7", "\\u08d8", "\\u08d9", "\\u08da", "\\u08db",
    "\\u08dc", "\\u08dd", "\\u08de", "\\u08df", "\\u08e0", "\\u08e1",
    "\\u08e2", "\\u08e3", "\\u08e4", "\\u08e5", "\\u08e6", "\\u08e7",
    "\\u08e8", "\\u08e9", "\\u08ea", "\\u08eb", "\\u08ec", "\\u08ed",
    "\\u08ee", "\\u08ef", "\\u08f0", "\\u08f1", "\\u08f2", "\\u08f3",
    "\\u08f4", "\\u08f5", "\\u08f6", "\\u08f7", "\\u08f8", "\\u08f9",
    "\\u08fa", "\\u08fb", "\\u08fc", "\\u08fd", "\\u08fe", "\\u08ff",
    "\\u0900", "\\u0901", "\\u0902", "\\u093a", "\\u093c", "\\u0941",
    "\\u0942", "\\u0943", "\\u0944", "\\u0945", "\\u0946", "\\u0947",
    "\\u0948", "\\u094d", "\\u0951", "\\u0952", "\\u0953", "\\u0954",
    "\\u0955", "\\u0956", "\\u0957", "\\u0962", "\\u0963", "\\u0971",
    "\\u0981", "\\u09bc", "\\u09c1", "\\u09c2", "\\u09c3", "\\u09c4",
    "\\u09cd", "\\u09e2", "\\u09e3", "\\u09fe", "\\u0a01", "\\u0a02",
    "\\u0a3c", "\\u0a41", "\\u0a42", "\\u0a47", "\\u0a48", "\\u0a4b",
    "\\u0a4c", "\\u0a4d", "\\u0a51", "\\u0a70", "\\u0a71", "\\u0a75",
    "\\u0a81", "\\u0a82", "\\u0abc", "\\u0ac1", "\\u0ac2", "\\u0ac3",
    "\\u0ac4", "\\u0ac5", "\\u0ac7", "\\u0ac8", "\\u0acd", "\\u0ae2",
    "\\u0ae3", "\\u0afa", "\\u0afb", "\\u0afc", "\\u0afd", "\\u0afe",
    "\\u0aff", "\\u0b01", "\\u0b3c", "\\u0b3f", "\\u0b41", "\\u0b42",
    "\\u0b43", "\\u0b44", "\\u0b4d", "\\u0b55", "\\u0b56", "\\u0b62",
    "\\u0b63", "\\u0b82", "\\u0bc0", "\\u0bcd", "\\u0c00", "\\u0c04",
    "\\u0c3c", "\\u0c3e", "\\u0c3f", "\\u0c40", "\\u0c46", "\\u0c47",
    "\\u0c48", "\\u0c4a", "\\u0c4b", "\\u0c4c", "\\u0c4d", "\\u0c55",
    "\\u0c56", "\\u0c62", "\\u0c63", "\\u0c81", "\\u0cbc", "\\u0cbf",
    "\\u0cc6", "\\u0ccc", "\\u0ccd", "\\u0ce2", "\\u0ce3", "\\u0d00",
    "\\u0d01", "\\u0d3b", "\\u0d3c", "\\u0d41", "\\u0d42", "\\u0d43",
    "\\u0d44", "\\u0d4d", "\\u0d62", "\\u0d63", "\\u0d81", "\\u0dca",
    "\\u0dd2", "\\u0dd3", "\\u0dd4", "\\u0dd6", "\\u0e31", "\\u0e34",
    "\\u0e35", "\\u0e36", "\\u0e37", "\\u0e38", "\\u0e39", "\\u0e3a",
    "\\u0e46", "\\u0e47", "\\u0e48", "\\u0e49", "\\u0e4a", "\\u0e4b",
    "\\u0e4c", "\\u0e4d", "\\u0e4e", "\\u0eb1", "\\u0eb4", "\\u0eb5",
    "\\u0eb6", "\\u0eb7", "\\u0eb8", "\\u0eb9", "\\u0eba", "\\u0ebb",
    "\\u0ebc", "\\u0ec6", "\\u0ec8", "\\u0ec9", "\\u0eca", "\\u0ecb",
    "\\u0ecc", "\\u0ecd", "\\u0ece", "\\u0f18", "\\u0f19", "\\u0f35",
    "\\u0f37", "\\u0f39", "\\u0f71", "\\u0f72", "\\u0f73", "\\u0f74",
    "\\u0f75", "\\u0f76", "\\u0f77", "\\u0f78", "\\u0f79", "\\u0f7a",
    "\\u0f7b", "\\u0f7c", "\\u0f7d", "\\u0f7e", "\\u0f80", "\\u0f81",
    "\\u0f82", "\\u0f83", "\\u0f84", "\\u0f86", "\\u0f87", "\\u0f8d",
    "\\u0f8e", "\\u0f8f", "\\u0f90", "\\u0f91", "\\u0f92", "\\u0f93",
    "\\u0f94", "\\u0f95", "\\u0f96", "\\u0f97", "\\u0f99", "\\u0f9a",
    "\\u0f9b", "\\u0f9c", "\\u0f9d", "\\u0f9e", "\\u0f9f", "\\u0fa0",
    "\\u0fa1", "\\u0fa2", "\\u0fa3", "\\u0fa4", "\\u0fa5", "\\u0fa6",
    "\\u0fa7", "\\u0fa8", "\\u0fa9", "\\u0faa", "\\u0fab", "\\u0fac",
    "\\u0fad", "\\u0fae", "\\u0faf", "\\u0fb0", "\\u0fb1", "\\u0fb2",
    "\\u0fb3", "\\u0fb4", "\\u0fb5", "\\u0fb6", "\\u0fb7", "\\u0fb8",
    "\\u0fb9", "\\u0fba", "\\u0fbb", "\\u0fbc", "\\u0fc6", "\\u102d",
    "\\u102e", "\\u102f", "\\u1030", "\\u1032", "\\u1033", "\\u1034",
    "\\u1035", "\\u1036", "\\u1037", "\\u1039", "\\u103a", "\\u103d",
    "\\u103e", "\\u1058", "\\u1059", "\\u105e", "\\u105f", "\\u1060",
    "\\u1071", "\\u1072", "\\u1073", "\\u1074", "\\u1082", "\\u1085",
    "\\u1086", "\\u108d", "\\u109d", "\\u10fc", "\\u135d", "\\u135e",
    "\\u135f", "\\u1712", "\\u1713", "\\u1714", "\\u1732", "\\u1733",
    "\\u1752", "\\u1753", "\\u1772", "\\u1773", "\\u17b4", "\\u17b5",
    "\\u17b7", "\\u17b8", "\\u17b9", "\\u17ba", "\\u17bb", "\\u17bc",
    "\\u17bd", "\\u17c6", "\\u17c9", "\\u17ca", "\\u17cb", "\\u17cc",
    "\\u17cd", "\\u17ce", "\\u17cf", "\\u17d0", "\\u17d1", "\\u17d2",
    "\\u17d3", "\\u17d7", "\\u17dd", "\\u180b", "\\u180c", "\\u180d",
    "\\u180e", "\\u180f", "\\u1843", "\\u1885", "\\u1886", "\\u18a9",
    "\\u1920", "\\u1921", "\\u1922", "\\u1927", "\\u1928", "\\u1932",
    "\\u1939", "\\u193a", "\\u193b", "\\u1a17", "\\u1a18", "\\u1a1b",
    "\\u1a56", "\\u1a58", "\\u1a59", "\\u1a5a", "\\u1a5b", "\\u1a5c",
    "\\u1a5d", "\\u1a5e", "\\u1a60", "\\u1a62", "\\u1a65", "\\u1a66",
    "\\u1a67", "\\u1a68", "\\u1a69", "\\u1a6a", "\\u1a6b", "\\u1a6c",
    "\\u1a73", "\\u1a74", "\\u1a75", "\\u1a76", "\\u1a77", "\\u1a78",
    "\\u1a79", "\\u1a7a", "\\u1a7b", "\\u1a7c", "\\u1a7f", "\\u1aa7",
    "\\u1ab0", "\\u1ab1", "\\u1ab2", "\\u1ab3", "\\u1ab4", "\\u1ab5",
    "\\u1ab6", "\\u1ab7", "\\u1ab8", "\\u1ab9", "\\u1aba", "\\u1abb",
    "\\u1abc", "\\u1abd", "\\u1abe", "\\u1abf", "\\u1ac0", "\\u1ac1",
    "\\u1ac2", "\\u1ac3", "\\u1ac4", "\\u1ac5", "\\u1ac6", "\\u1ac7",
    "\\u1ac8", "\\u1ac9", "\\u1aca", "\\u1acb", "\\u1acc", "\\u1acd",
    "\\u1ace", "\\u1acf", "\\u1ad0", "\\u1ad1", "\\u1ad2", "\\u1ad3",
    "\\u1ad4", "\\u1ad5", "\\u1ad6", "\\u1ad7", "\\u1ad8", "\\u1ad9",
    "\\u1ada", "\\u1adb", "\\u1adc", "\\u1add", "\\u1ae0", "\\u1ae1",
    "\\u1ae2", "\\u1ae3", "\\u1ae4", "\\u1ae5", "\\u1ae6", "\\u1ae7",
    "\\u1ae8", "\\u1ae9", "\\u1aea", "\\u1aeb", "\\u1b00", "\\u1b01",
    "\\u1b02", "\\u1b03", "\\u1b34", "\\u1b36", "\\u1b37", "\\u1b38",
    "\\u1b39", "\\u1b3a", "\\u1b3c", "\\u1b42", "\\u1b6b", "\\u1b6c",
    "\\u1b6d", "\\u1b6e", "\\u1b6f", "\\u1b70", "\\u1b71", "\\u1b72",
    "\\u1b73", "\\u1b80", "\\u1b81", "\\u1ba2", "\\u1ba3", "\\u1ba4",
    "\\u1ba5", "\\u1ba8", "\\u1ba9", "\\u1bab", "\\u1bac", "\\u1bad",
    "\\u1be6", "\\u1be8", "\\u1be9", "\\u1bed", "\\u1bef", "\\u1bf0",
    "\\u1bf1", "\\u1c2c", "\\u1c2d", "\\u1c2e", "\\u1c2f", "\\u1c30",
    "\\u1c31", "\\u1c32", "\\u1c33", "\\u1c36", "\\u1c37", "\\u1c78",
    "\\u1c79", "\\u1c7a", "\\u1c7b", "\\u1c7c", "\\u1c7d", "\\u1cd0",
    "\\u1cd1", "\\u1cd2", "\\u1cd4", "\\u1cd5", "\\u1cd6", "\\u1cd7",
    "\\u1cd8", "\\u1cd9", "\\u1cda", "\\u1cdb", "\\u1cdc", "\\u1cdd",
    "\\u1cde", "\\u1cdf", "\\u1ce0", "\\u1ce2", "\\u1ce3", "\\u1ce4",
    "\\u1ce5", "\\u1ce6", "\\u1ce7", "\\u1ce8", "\\u1ced", "\\u1cf4",
    "\\u1cf8", "\\u1cf9", "\\u1d2c", "\\u1d2d", "\\u1d2e", "\\u1d2f",
    "\\u1d30", "\\u1d31", "\\u1d32", "\\u1d33", "\\u1d34", "\\u1d35",
    "\\u1d36", "\\u1d37", "\\u1d38", "\\u1d39", "\\u1d3a", "\\u1d3b",
    "\\u1d3c", "\\u1d3d", "\\u1d3e", "\\u1d3f", "\\u1d40", "\\u1d41",
    "\\u1d42", "\\u1d43", "\\u1d44", "\\u1d45", "\\u1d46", "\\u1d47",
    "\\u1d48", "\\u1d49", "\\u1d4a", "\\u1d4b", "\\u1d4c", "\\u1d4d",
    "\\u1d4e", "\\u1d4f", "\\u1d50", "\\u1d51", "\\u1d52", "\\u1d53",
    "\\u1d54", "\\u1d55", "\\u1d56", "\\u1d57", "\\u1d58", "\\u1d59",
    "\\u1d5a", "\\u1d5b", "\\u1d5c", "\\u1d5d", "\\u1d5e", "\\u1d5f",
    "\\u1d60", "\\u1d61", "\\u1d62", "\\u1d63", "\\u1d64", "\\u1d65",
    "\\u1d66", "\\u1d67", "\\u1d68", "\\u1d69", "\\u1d6a", "\\u1d78",
    "\\u1d9b", "\\u1d9c", "\\u1d9d", "\\u1d9e", "\\u1d9f", "\\u1da0",
    "\\u1da1", "\\u1da2", "\\u1da3", "\\u1da4", "\\u1da5", "\\u1da6",
    "\\u1da7", "\\u1da8", "\\u1da9", "\\u1daa", "\\u1dab", "\\u1dac",
    "\\u1dad", "\\u1dae", "\\u1daf", "\\u1db0", "\\u1db1", "\\u1db2",
    "\\u1db3", "\\u1db4", "\\u1db5", "\\u1db6", "\\u1db7", "\\u1db8",
    "\\u1db9", "\\u1dba", "\\u1dbb", "\\u1dbc", "\\u1dbd", "\\u1dbe",
    "\\u1dbf", "\\u1dc0", "\\u1dc1", "\\u1dc2", "\\u1dc3", "\\u1dc4",
    "\\u1dc5", "\\u1dc6", "\\u1dc7", "\\u1dc8", "\\u1dc9", "\\u1dca",
    "\\u1dcb", "\\u1dcc", "\\u1dcd", "\\u1dce", "\\u1dcf", "\\u1dd0",
    "\\u1dd1", "\\u1dd2", "\\u1dd3", "\\u1dd4", "\\u1dd5", "\\u1dd6",
    "\\u1dd7", "\\u1dd8", "\\u1dd9", "\\u1dda", "\\u1ddb", "\\u1ddc",
    "\\u1ddd", "\\u1dde", "\\u1ddf", "\\u1de0", "\\u1de1", "\\u1de2",
    "\\u1de3", "\\u1de4", "\\u1de5", "\\u1de6", "\\u1de7", "\\u1de8",
    "\\u1de9", "\\u1dea", "\\u1deb", "\\u1dec", "\\u1ded", "\\u1dee",
    "\\u1def", "\\u1df0", "\\u1df1", "\\u1df2", "\\u1df3", "\\u1df4",
    "\\u1df5", "\\u1df6", "\\u1df7", "\\u1df8", "\\u1df9", "\\u1dfa",
    "\\u1dfb", "\\u1dfc", "\\u1dfd", "\\u1dfe", "\\u1dff", "\\u1fbd",
    "\\u1fbf", "\\u1fc0", "\\u1fc1", "\\u1fcd", "\\u1fce", "\\u1fcf",
    "\\u1fdd", "\\u1fde", "\\u1fdf", "\\u1fed", "\\u1fee", "\\u1fef",
    "\\u1ffd", "\\u1ffe", "\\u200b", "\\u200c", "\\u200d", "\\u200e",
    "\\u200f", "\\u2018", "\\u2019", "\\u2024", "\\u2027", "\\u202a",
    "\\u202b", "\\u202c", "\\u202d", "\\u202e", "\\u2060", "\\u2061",
    "\\u2062", "\\u2063", "\\u2064", "\\u2066", "\\u2067", "\\u2068",
    "\\u2069", "\\u206a", "\\u206b", "\\u206c", "\\u206d", "\\u206e",
    "\\u206f", "\\u2071", "\\u207f", "\\u2090", "\\u2091", "\\u2092",
    "\\u2093", "\\u2094", "\\u2095", "\\u2096", "\\u2097", "\\u2098",
    "\\u2099", "\\u209a", "\\u209b", "\\u209c", "\\u20d0", "\\u20d1",
    "\\u20d2", "\\u20d3", "\\u20d4", "\\u20d5", "\\u20d6", "\\u20d7",
    "\\u20d8", "\\u20d9", "\\u20da", "\\u20db", "\\u20dc", "\\u20dd",
    "\\u20de", "\\u20df", "\\u20e0", "\\u20e1", "\\u20e2", "\\u20e3",
    "\\u20e4", "\\u20e5", "\\u20e6", "\\u20e7", "\\u20e8", "\\u20e9",
    "\\u20ea", "\\u20eb", "\\u20ec", "\\u20ed", "\\u20ee", "\\u20ef",
    "\\u20f0", "\\u2c7c", "\\u2c7d", "\\u2cef", "\\u2cf0", "\\u2cf1",
    "\\u2d6f", "\\u2d7f", "\\u2de0", "\\u2de1", "\\u2de2", "\\u2de3",
    "\\u2de4", "\\u2de5", "\\u2de6", "\\u2de7", "\\u2de8", "\\u2de9",
    "\\u2dea", "\\u2deb", "\\u2dec", "\\u2ded", "\\u2dee", "\\u2def",
    "\\u2df0", "\\u2df1", "\\u2df2", "\\u2df3", "\\u2df4", "\\u2df5",
    "\\u2df6", "\\u2df7", "\\u2df8", "\\u2df9", "\\u2dfa", "\\u2dfb",
    "\\u2dfc", "\\u2dfd", "\\u2dfe", "\\u2dff", "\\u2e2f", "\\u3005",
    "\\u302a", "\\u302b", "\\u302c", "\\u302d", "\\u3031", "\\u3032",
    "\\u3033", "\\u3034", "\\u3035", "\\u303b", "\\u3099", "\\u309a",
    "\\u309b", "\\u309c", "\\u309d", "\\u309e", "\\u30fc", "\\u30fd",
    "\\u30fe", "\\ua015", "\\ua4f8", "\\ua4f9", "\\ua4fa", "\\ua4fb",
    "\\ua4fc", "\\ua4fd", "\\ua60c", "\\ua66f", "\\ua670", "\\ua671",
    "\\ua672", "\\ua674", "\\ua675", "\\ua676", "\\ua677", "\\ua678",
    "\\ua679", "\\ua67a", "\\ua67b", "\\ua67c", "\\ua67d", "\\ua67f",
    "\\ua69c", "\\ua69d", "\\ua69e", "\\ua69f", "\\ua6f0", "\\ua6f1",
    "\\ua700", "\\ua701", "\\ua702", "\\ua703", "\\ua704", "\\ua705",
    "\\ua706", "\\ua707", "\\ua708", "\\ua709", "\\ua70a", "\\ua70b",
    "\\ua70c", "\\ua70d", "\\ua70e", "\\ua70f", "\\ua710", "\\ua711",
    "\\ua712", "\\ua713", "\\ua714", "\\ua715", "\\ua716", "\\ua717",
    "\\ua718", "\\ua719", "\\ua71a", "\\ua71b", "\\ua71c", "\\ua71d",
    "\\ua71e", "\\ua71f", "\\ua720", "\\ua721", "\\ua770", "\\ua788",
    "\\ua789", "\\ua78a", "\\ua7f1", "\\ua7f2", "\\ua7f3", "\\ua7f4",
    "\\ua7f8", "\\ua7f9", "\\ua802", "\\ua806", "\\ua80b", "\\ua825",
    "\\ua826", "\\ua82c", "\\ua8c4", "\\ua8c5", "\\ua8e0", "\\ua8e1",
    "\\ua8e2", "\\ua8e3", "\\ua8e4", "\\ua8e5", "\\ua8e6", "\\ua8e7",
    "\\ua8e8", "\\ua8e9", "\\ua8ea", "\\ua8eb", "\\ua8ec", "\\ua8ed",
    "\\ua8ee", "\\ua8ef", "\\ua8f0", "\\ua8f1", "\\ua8ff", "\\ua926",
    "\\ua927", "\\ua928", "\\ua929", "\\ua92a", "\\ua92b", "\\ua92c",
    "\\ua92d", "\\ua947", "\\ua948", "\\ua949", "\\ua94a", "\\ua94b",
    "\\ua94c", "\\ua94d", "\\ua94e", "\\ua94f", "\\ua950", "\\ua951",
    "\\ua980", "\\ua981", "\\ua982", "\\ua9b3", "\\ua9b6", "\\ua9b7",
    "\\ua9b8", "\\ua9b9", "\\ua9bc", "\\ua9bd", "\\ua9cf", "\\ua9e5",
    "\\ua9e6", "\\uaa29", "\\uaa2a", "\\uaa2b", "\\uaa2c", "\\uaa2d",
    "\\uaa2e", "\\uaa31", "\\uaa32", "\\uaa35", "\\uaa36", "\\uaa43",
    "\\uaa4c", "\\uaa70", "\\uaa7c", "\\uaab0", "\\uaab2", "\\uaab3",
    "\\uaab4", "\\uaab7", "\\uaab8", "\\uaabe", "\\uaabf", "\\uaac1",
    "\\uaadd", "\\uaaec", "\\uaaed", "\\uaaf3", "\\uaaf4", "\\uaaf6",
    "\\uab5b", "\\uab5c", "\\uab5d", "\\uab5e", "\\uab5f", "\\uab69",
    "\\uab6a", "\\uab6b", "\\uabe5", "\\uabe8", "\\uabed", "\\ufb1e",
    "\\ufbb2", "\\ufbb3", "\\ufbb4", "\\ufbb5", "\\ufbb6", "\\ufbb7",
    "\\ufbb8", "\\ufbb9", "\\ufbba", "\\ufbbb", "\\ufbbc", "\\ufbbd",
    "\\ufbbe", "\\ufbbf", "\\ufbc0", "\\ufbc1", "\\ufbc2", "\\ufe00",
    "\\ufe01", "\\ufe02", "\\ufe03", "\\ufe04", "\\ufe05", "\\ufe06",
    "\\ufe07", "\\ufe08", "\\ufe09", "\\ufe0a", "\\ufe0b", "\\ufe0c",
    "\\ufe0d", "\\ufe0e", "\\ufe0f", "\\ufe13", "\\ufe20", "\\ufe21",
    "\\ufe22", "\\ufe23", "\\ufe24", "\\ufe25", "\\ufe26", "\\ufe27",
    "\\ufe28", "\\ufe29", "\\ufe2a", "\\ufe2b", "\\ufe2c", "\\ufe2d",
    "\\ufe2e", "\\ufe2f", "\\ufe52", "\\ufe55", "\\ufeff", "\\uff07",
    "\\uff0e", "\\uff1a", "\\uff3e", "\\uff40", "\\uff70", "\\uff9e",
    "\\uff9f", "\\uffe3", "\\ufff9", "\\ufffa", "\\ufffb"}

\* the characters beyond U+FFFF with the property Cased
SupplementaryCased ==
  {"\\ud801\\udc00", "\\ud801\\udc01", "\\ud801\\udc02", "\\ud801\\udc03",
    "\\ud801\\udc04", "\\ud801\\udc05", "\\ud801\\udc06", "\\ud801\\udc07",
    "\\ud801\\udc08", "\\ud801\\udc09", "\\ud801\\udc0a", "\\ud801\\udc0b",
    "\\ud801\\udc0c", "\\ud801\\udc0d", "\\ud801\\udc0e", "\\ud801\\udc0f",
    "\\ud801\\udc10", "\\ud801\\udc11", "\\ud801\\udc12", "\\ud801\\udc13",
    "\\ud801\\udc14", "\\ud801\\udc15", "\\ud801\\udc16", "\\ud801\\udc17",
    "\\ud801\\udc18", "\\ud801\\udc19", "\\ud801\\udc1a", "\\ud801\\udc1b",
    "\\ud801\\udc1c", "\\ud801\\udc1d", "\\ud801\\udc1e", "\\ud801\\udc1f",
    "\\ud801\\udc20", "\\ud801\\udc21", "\\ud801\\udc22", "\\ud801\\udc23",
    "\\ud801\\udc24", "\\ud801\\udc25", "\\ud801\\udc26", "\\ud801\\udc27",
    "\\ud801\\udc28", "\\ud801\\udc29", "\\ud801\\udc2a", "\\ud801\\udc2b",
    "\\ud801\\udc2c", "\\ud801\\udc2d", "\\ud801\\udc2e", "\\ud801\\udc2f",
    "\\ud801\\udc30", "\\ud801\\udc31", "\\ud801\\udc32", "\\ud801\\udc33",
    "\\ud801\\udc34", "\\ud801\\udc35", "\\ud801\\udc36", "\\ud801\\udc37",
    "\\ud801\\udc38", "\\ud801\\udc39", "\\ud801\\udc3a", "\\ud801\\udc3b",
    "\\ud801\\udc3c", "\\ud801\\udc3d", "\\ud801\\udc3e", "\\ud801\\udc3f",
    "\\ud801\\udc40", "\\ud801\\udc41", "\\ud801\\udc42", "\\ud801\\udc43",
    "\\ud801\\udc44", "\\ud801\\udc45", "\\ud801\\udc46", "\\ud801\\udc47",
    "\\ud801\\udc48", "\\ud801\\udc49", "\\ud801\\udc4a", "\\ud801\\udc4b",
    "\\ud801\\udc4c", "\\ud801\\udc4d", "\\ud801\\udc4e", "\\ud801\\udc4f",
    "\\ud801\\udcb0", "\\ud801\\udcb1", "\\ud801\\udcb2", "\\ud801\\udcb3",
    "\\ud801\\udcb4", "\\ud801\\udcb5", "\\ud801\\udcb6", "\\ud801\\udcb7",
    "\\ud801\\udcb8", "\\ud801\\udcb9", "\\ud801\\udcba", "\\ud801\\udcbb",
    "\\ud801\\udcbc", "\\ud801\\udcbd", "\\ud801\\udcbe", "\\ud801\\udcbf",
    "\\ud801\\udcc0", "\\ud801\\udcc1", "\\ud801\\udcc2", "\\ud801\\udcc3",
    "\\ud801\\udcc4", "\\ud801\\udcc5", "\\ud801\\udcc6", "\\ud801\\udcc7",
    "\\ud801\\udcc8", "\\ud801\\udcc9", "\\ud801\\udcca", "\\ud801\\udccb",
    "\\ud801\\udccc", "\\ud801\\udccd", "\\ud801\\udcce", "\\ud801\\udccf",
    "\\ud801\\udcd0", "\\ud801\\udcd1", "\\ud801\\udcd2", "\\ud801\\udcd3",
    "\\ud801\\udcd8", "\\ud801\\udcd9", "\\ud801\\udcda", "\\ud801\\udcdb",
    "\\ud801\\udcdc", "\\ud801\\udcdd", "\\ud801\\udcde", "\\ud801\\udcdf",
    "\\ud801\\udce0", "\\ud801\\udce1", "\\ud801\\udce2", "\\ud801\\udce3",
    "\\ud801\\udce4", "\\ud801\\udce5", "\\ud801\\udce6", "\\ud801\\udce7",
    "\\ud801\\udce8", "\\ud801\\udce9", "\\ud801\\udcea", "\\ud801\\udceb",
    "\\ud801\\udcec", "\\ud801\\udced", "\\ud801\\udcee", "\\ud801\\udcef",
    "\\ud801\\udcf0", "\\ud801\\udcf1", "\\ud801\\udcf2", "\\ud801\\udcf3",
    "\\ud801\\udcf4", "\\ud801\\udcf5", "\\ud801\\udcf6", "\\ud801\\udcf7",
    "\\ud801\\udcf8", "\\ud801\\udcf9", "\\ud801\\udcfa", "\\ud801\\udcfb",
    "\\ud801\\udd70", "\\ud801\\udd71", "\\ud801\\udd72", "\\ud801\\udd73",
    "\\ud801\\udd74", "\\ud801\\udd75", "\\ud801\\udd76", "\\ud801\\udd77",
    "\\ud801\\udd78", "\\ud801\\udd79", "\\ud801\\udd7a", "\\ud801\\udd7c",
    "\\ud801\\udd7d", "\\ud801\\udd7e", "\\ud801\\udd7f", "\\ud801\\udd80",
    "\\ud801\\udd81", "\\ud801\\udd82", "\\ud801\\udd83", "\\ud801\\udd84",
    "\\ud801\\udd85", "\\ud801\\udd86", "\\ud801\\udd87", "\\ud801\\udd88",
    "\\ud801\\udd89", "\\ud801\\udd8a", "\\ud801\\udd8c", "\\ud801\\udd8d",
    "\\ud801\\udd8e", "\\ud801\\udd8f", "\\ud801\\udd90", "\\ud801\\udd91",
    "\\ud801\\udd92", "\\ud801\\udd94", "\\ud801\\udd95", "\\ud801\\udd97",
    "\\ud801\\udd98", "\\ud801\\udd99", "\\ud801\\udd9a", "\\ud801\\udd9b",
    "\\ud801\\udd9c", "\\ud801\\udd9d", "\\ud801\\udd9e", "\\ud801\\udd9f",
    "\\ud801\\udda0", "\\ud801\\udda1", "\\ud801\\udda3", "\\ud801\\udda4",
    "\\ud801\\udda5", "\\ud801\\udda6", "\\ud801\\udda7", "\\ud801\\udda8",
    "\\ud801\\udda9", "\\ud801\\uddaa", "\\ud801\\uddab", "\\ud801\\uddac",
    "\\ud801\\uddad", "\\ud801\\uddae", "\\ud801\\uddaf", "\\ud801\\uddb0",
    "\\ud801\\uddb1", "\\ud801\\uddb3", "\\ud801\\uddb4", "\\ud801\\uddb5",
    "\\ud801\\uddb6", "\\ud801\\uddb7", "\\ud801\\uddb8", "\\ud801\\uddb9",
    "\\ud801\\uddbb", "\\ud801\\uddbc", "\\ud801\\udf80", "\\ud801\\udf83",
    "\\ud801\\udf84", "\\ud801\\udf85", "\\ud801\\udf87", "\\ud801\\udf88",
    "\\ud801\\udf89", "\\ud801\\udf8a", "\\ud801\\udf8b", "\\ud801\\udf8c",
    "\\ud801\\udf8d", "\\ud801\\udf8e", "\\ud801\\udf8f", "\\ud801\\udf90",
    "\\ud801\\udf91", "\\ud801\\udf92", "\\ud801\\udf93", "\\ud801\\udf94",
    "\\ud801\\udf95", "\\ud801\\udf96", "\\ud801\\udf97", "\\ud801\\udf98",
    "\\ud801\\udf99", "\\ud801\\udf9a", "\\ud801\\udf9b", "\\ud801\\udf9c",
    "\\ud801\\udf9d", "\\ud801\\udf9e", "\\ud801\\udf9f", "\\ud801\\udfa0",
    "\\ud801\\udfa1", "\\ud801\\udfa2", "\\ud801\\udfa3", "\\ud801\\udfa4",
    "\\ud801\\udfa5", "\\ud801\\udfa6", "\\ud801\\udfa7", "\\ud801\\udfa8",
    "\\ud801\\udfa9", "\\ud801\\udfaa", "\\ud801\\udfab", "\\ud801\\udfac",
    "\\ud801\\udfad", "\\ud801\\udfae", "\\ud801\\udfaf", "\\ud801\\udfb0",
    "\\ud801\\udfb2", "\\ud801\\udfb3", "\\ud801\\udfb4", "\\ud801\\udfb5",
    "\\ud801\\udfb6", "\\ud801\\udfb7", "\\ud801\\udfb8", "\\ud801\\udfb9",
    "\\ud801\\udfba", "\\ud803\\udc80", "\\ud803\\udc81", "\\ud803\\udc82",
    "\\ud803\\udc83", "\\ud803\\udc84", "\\ud803\\udc85", "\\ud803\\udc86",
    "\\ud803\\udc87", "\\ud803\\udc88", "\\ud803\\udc89", "\\ud803\\udc8a",
    "\\ud803\\udc8b", "\\ud803\\udc8c", "\\ud803\\udc8d", "\\ud803\\udc8e",
    "\\ud803\\udc8f", "\\ud803\\udc90", "\\ud803\\udc91", "\\ud803\\udc92",
    "\\ud803\\udc93", "\\ud803\\udc94", "\\ud803\\udc95", "\\ud803\\udc96",
    "\\ud803\\udc97", "\\ud803\\udc98", "\\ud803\\udc99", "\\ud803\\udc9a",
    "\\ud803\\udc9b", "\\ud803\\udc9c", "\\ud803\\udc9d", "\\ud803\\udc9e",
    "\\ud803\\udc9f", "\\ud803\\udca0", "\\ud803\\udca1", "\\ud803\\udca2",
    "\\ud803\\udca3", "\\ud803\\udca4", "\\ud803\\udca5", "\\ud803\\udca6",
    "\\ud803\\udca7", "\\ud803\\udca8", "\\ud803\\udca9", "\\ud803\\udcaa",
    "\\ud803\\udcab", "\\ud803\\udcac", "\\ud803\\udcad", "\\ud803\\udcae",
    "\\ud803\\udcaf", "\\ud803\\udcb0", "\\ud803\\udcb1", "\\ud803\\udcb2",
    "\\ud803\\udcc0", "\\ud803\\udcc1", "\\ud803\\udcc2", "\\ud803\\udcc3",
    "\\ud803\\udcc4", "\\ud803\\udcc5", "\\ud803\\udcc6", "\\ud803\\udcc7",
    "\\ud803\\udcc8", "\\ud803\\udcc9", "\\ud803\\udcca", "\\ud803\\udccb",
    "\\ud803\\udccc", "\\ud803\\udccd", "\\ud803\\udcce", "\\ud803\\udccf",
    "\\ud803\\udcd0", "\\ud803\\udcd1", "\\ud803\\udcd2", "\\ud803\\udcd3",
    "\\ud803\\udcd4", "\\ud803\\udcd5", "\\ud803\\udcd6", "\\ud803\\udcd7",
    "\\ud803\\udcd8", "\\ud803\\udcd9", "\\ud803\\udcda", "\\ud803\\udcdb",
    "\\ud803\\udcdc", "\\ud803\\udcdd", "\\ud803\\udcde", "\\ud803\\udcdf",
    "\\ud803\\udce0", "\\ud803\\udce1", "\\ud803\\udce2", "\\ud803\\udce3",
    "\\ud803\\udce4", "\\ud803\\udce5", "\\ud803\\udce6", "\\ud803\\udce7",
    "\\ud803\\udce8", "\\ud803\\udce9", "\\ud803\\udcea", "\\ud803\\udceb",
    "\\ud803\\udcec", "\\ud803\\udced", "\\ud803\\udcee", "\\ud803\\udcef",
    "\\ud803\\udcf0", "\\ud803\\udcf1", "\\ud803\\udcf2", "\\ud803\\udd50",
    "\\ud803\\udd51", "\\ud803\\udd52", "\\ud803\\udd53", "\\ud803\\udd54",
    "\\ud803\\udd55", "\\ud803\\udd56", "\\ud803\\udd57", "\\ud803\\udd58",
    "\\ud803\\udd59", "\\ud803\\udd5a", "\\ud803\\udd5b", "\\ud803\\udd5c",
    "\\ud803\\udd5d", "\\ud803\\udd5e", "\\ud803\\udd5f", "\\ud803\\udd60",
    "\\ud803\\udd61", "\\ud803\\udd62", "\\ud803\\udd63", "\\ud803\\udd64",
    "\\ud803\\udd65", "\\ud803\\udd70", "\\ud803\\udd71", "\\ud803\\udd72",
    "\\ud803\\udd73", "\\ud803\\udd74", "\\ud803\\udd75", "\\ud803\\udd76",
    "\\ud803\\udd77", "\\ud803\\udd78", "\\ud803\\udd79", "\\ud803\\udd7a",
    "\\ud803\\udd7b", "\\ud803\\udd7c", "\\ud803\\udd7d", "\\ud803\\udd7e",
    "\\ud803\\udd7f", "\\ud803\\udd80", "\\ud803\\udd81", "\\ud803\\udd82",
    "\\ud803\\udd83", "\\ud803\\udd84", "\\ud803\\udd85", "\\ud806\\udca0",
    "\\ud806\\udca1", "\\ud806\\udca2", "\\ud806\\udca3", "\\ud806\\udca4",
    "\\ud806\\udca5", "\\ud806\\udca6", "\\ud806\\udca7", "\\ud806\\udca8",
    "\\ud806\\udca9", "\\ud806\\udcaa", "\\ud806\\udcab", "\\ud806\\udcac",
    "\\ud806\\udcad", "\\ud806\\udcae", "\\ud806\\udcaf", "\\ud806\\udcb0",
    "\\ud806\\udcb1", "\\ud806\\udcb2", "\\ud806\\udcb3", "\\ud806\\udcb4",
    "\\ud806\\udcb5", "\\ud806\\udcb6", "\\ud806\\udcb7", "\\ud806\\udcb8",
    "\\ud806\\udcb9", "\\ud806\\udcba", "\\ud806\\udcbb", "\\ud806\\udcbc",
    "\\ud806\\udcbd", "\\ud806\\udcbe", "\\ud806\\udcbf", "\\ud806\\udcc0",
    "\\ud806\\udcc1", "\\ud806\\udcc2", "\\ud806\\udcc3", "\\ud806\\udcc4",
    "\\ud806\\udcc5", "\\ud806\\udcc6", "\\ud806\\udcc7", "\\ud806\\udcc8",
    "\\ud806\\udcc9", "\\ud806\\udcca", "\\ud806\\udccb", "\\ud806\\udccc",
    "\\ud806\\udccd", "\\ud806\\udcce", "\\ud806\\udccf", "\\ud806\\udcd0",
    "\\ud806\\udcd1", "\\ud806\\udcd2", "\\ud806\\udcd3", "\\ud806\\udcd4",
    "\\ud806\\udcd5", "\\ud806\\udcd6", "\\ud806\\udcd7", "\\ud806\\udcd8",
    "\\ud806\\udcd9", "\\ud806\\udcda", "\\ud806\\udcdb", "\\ud806\\udcdc",
    "\\ud806\\udcdd", "\\ud806\\udcde", "\\ud806\\udcdf", "\\ud81b\\ude40",
    "\\ud81b\\ude41", "\\ud81b\\ude42", "\\ud81b\\ude43", "\\ud81b\\ude44",
    "\\ud81b\\ude45", "\\ud81b\\ude46", "\\ud81b\\ude47", "\\ud81b\\ude48",
    "\\ud81b\\ude49", "\\ud81b\\ude4a", "\\ud81b\\ude4b", "\\ud81b\\ude4c",
    "\\ud81b\\ude4d", "\\ud81b\\ude4e", "\\ud81b\\ude4f", "\\ud81b\\ude50",
    "\\ud81b\\ude51", "\\ud81b\\ude52", "\\ud81b\\ude53", "\\ud81b\\ude54",
    "\\ud81b\\ude55", "\\ud81b\\ude56", "\\ud81b\\ude57", "\\ud81b\\ude58",
    "\\ud81b\\ude59", "\\ud81b\\ude5a", "\\ud81b\\ude5b", "\\ud81b\\ude5c",
    "\\ud81b\\ude5d", "\\ud81b\\ude5e", "\\ud81b\\ude5f", "\\ud81b\\ude60",
    "\\ud81b\\ude61", "\\ud81b\\ude62", "\\ud81b\\ude63", "\\ud81b\\ude64",
    "\\ud81b\\ude65", "\\ud81b\\ude66", "\\ud81b\\ude67", "\\ud81b\\ude68",
    "\\ud81b\\ude69", "\\ud81b\\ude6a", "\\ud81b\\ude6b", "\\ud81b\\ude6c",
    "\\ud81b\\ude6d", "\\ud81b\\ude6e", "\\ud81b\\ude6f", "\\ud81b\\ude70",
    "\\ud81b\\ude71", "\\ud81b\\ude72", "\\ud81b\\ude73", "\\ud81b\\ude74",
    "\\ud81b\\ude75", "\\ud81b\\ude76", "\\ud81b\\ude77", "\\ud81b\\ude78",
    "\\ud81b\\ude79", "\\ud81b\\ude7a", "\\ud81b\\ude7b", "\\ud81b\\ude7c",
    "\\ud81b\\ude7d", "\\ud81b\\ude7e", "\\ud81b\\ude7f", "\\ud81b\\udea0",
    "\\ud81b\\udea1", "\\ud81b\\udea2", "\\ud81b\\udea3", "\\ud81b\\udea4",
    "\\ud81b\\udea5", "\\ud81b\\udea6", "\\ud81b\\udea7", "\\ud81b\\udea8",
    "\\ud81b\\udea9", "\\ud81b\\udeaa", "\\ud81b\\udeab", "\\ud81b\\udeac",
    "\\ud81b\\udead", "\\ud81b\\udeae", "\\ud81b\\udeaf", "\\ud81b\\udeb0",
    "\\ud81b\\udeb1", "\\ud81b\\udeb2", "\\ud81b\\udeb3", "\\ud81b\\udeb4",
    "\\ud81b\\udeb5", "\\ud81b\\udeb6", "\\ud81b\\udeb7", "\\ud81b\\udeb8",
    "\\ud81b\\udebb", "\\ud81b\\udebc", "\\ud81b\\udebd", "\\ud81b\\udebe",
    "\\ud81b\\udebf", "\\ud81b\\udec0", "\\ud81b\\udec1", "\\ud81b\\udec2",
    "\\ud81b\\udec3", "\\ud81b\\udec4", "\\ud81b\\udec5", "\\ud81b\\udec6",
    "\\ud81b\\udec7", "\\ud81b\\udec8", "\\ud81b\\udec9", "\\ud81b\\udeca",
    "\\ud81b\\udecb", "\\ud81b\\udecc", "\\ud81b\\udecd", "\\ud81b\\udece",
    "\\ud81b\\udecf", "\\ud81b\\uded0", "\\ud81b\\uded1", "\\ud81b\\uded2",
    "\\ud81b\\uded3", "\\ud835\\udc00", "\\ud835\\udc01", "\\ud835\\udc02",
    "\\ud835\\udc03", "\\ud835\\udc04", "\\ud835\\udc05", "\\ud835\\udc06",
    "\\ud835\\udc07", "\\ud835\\udc08", "\\ud835\\udc09", "\\ud835\\udc0a",
    "\\ud835\\udc0b", "\\ud835\\udc0c", "\\ud835\\udc0d", "\\ud835\\udc0e",
    "\\ud835\\udc0f", "\\ud835\\udc10", "\\ud835\\udc11", "\\ud835\\udc12",
    "\\ud835\\udc13", "\\ud835\\udc14", "\\ud835\\udc15", "\\ud835\\udc16",
    "\\ud835\\udc17", "\\ud835\\udc18", "\\ud835\\udc19", "\\ud835\\udc1a",
    "\\ud835\\udc1b", "\\ud835\\udc1c", "\\ud835\\udc1d", "\\ud835\\udc1e",
    "\\ud835\\udc1f", "\\ud835\\udc20", "\\ud835\\udc21", "\\ud835\\udc22",
    "\\ud835\\udc23", "\\ud835\\udc24", "\\ud835\\udc25", "\\ud835\\udc26",
    "\\ud835\\udc27", "\\ud835\\udc28", "\\ud835\\udc29", "\\ud835\\udc2a",
    "\\ud835\\udc2b", "\\ud835\\udc2c", "\\ud835\\udc2d", "\\ud835\\udc2e",
    "\\ud835\\udc2f", "\\ud835\\udc30", "\\ud835\\udc31", "\\ud835\\udc32",
    "\\ud835\\udc33", "\\ud835\\udc34", "\\ud835\\udc35", "\\ud835\\udc36",
    "\\ud835\\udc37", "\\ud835\\udc38", "\\ud835\\udc39", "\\ud835\\udc3a",
    "\\ud835\\udc3b", "\\ud835\\udc3c", "\\ud835\\udc3d", "\\ud835\\udc3e",
    "\\ud835\\udc3f", "\\ud835\\udc40", "\\ud835\\udc41", "\\ud835\\udc42",
    "\\ud835\\udc43", "\\ud835\\udc44", "\\ud835\\udc45", "\\ud835\\udc46",
    "\\ud835\\udc47", "\\ud835\\udc48", "\\ud835\\udc49", "\\ud835\\udc4a",
    "\\ud835\\udc4b", "\\ud835\\udc4c", "\\ud835\\udc4d", "\\ud835\\udc4e",
    "\\ud835\\udc4f", "\\ud835\\udc50", "\\ud835\\udc51", "\\ud835\\udc52",
    "\\ud835\\udc53", "\\ud835\\udc54", "\\ud835\\udc56", "\\ud835\\udc57",
    "\\ud835\\udc58", "\\ud835\\udc59", "\\ud835\\udc5a", "\\ud835\\udc5b",
    "\\ud835\\udc5c", "\\ud835\\udc5d", "\\ud835\\udc5e", "\\ud835\\udc5f",
    "\\ud835\\udc60", "\\ud835\\udc61", "\\ud835\\udc62", "\\ud835\\udc63",
    "\\ud835\\udc64", "\\ud835\\udc65", "\\ud835\\udc66", "\\ud835\\udc67",
    "\\ud835\\udc68", "\\ud835\\udc69", "\\ud835\\udc6a", "\\ud835\\udc6b",
    "\\ud835\\udc6c", "\\ud835\\udc6d", "\\ud835\\udc6e", "\\ud835\\udc6f",
    "\\ud835\\udc70", "\\ud835\\udc71", "\\ud835\\udc72", "\\ud835\\udc73",
    "\\ud835\\udc74", "\\ud835\\udc75", "\\ud835\\udc76", "\\ud835\\udc77",
    "\\ud835\\udc78", "\\ud835\\udc79", "\\ud835\\udc7a", "\\ud835\\udc7b",
    "\\ud835\\udc7c", "\\ud835\\udc7d", "\\ud835\\udc7e", "\\ud835\\udc7f",
    "\\ud835\\udc80", "\\ud835\\udc81", "\\ud835\\udc82", "\\ud835\\udc83",
    "\\ud835\\udc84", "\\ud835\\udc85", "\\ud835\\udc86", "\\ud835\\udc87",
    "\\ud835\\udc88", "\\ud835\\udc89", "\\ud835\\udc8a", "\\ud835\\udc8b",
    "\\ud835\\udc8c", "\\ud835\\udc8d", "\\ud835\\udc8e", "\\ud835\\udc8f",
    "\\ud835\\udc90", "\\ud835\\udc91", "\\ud835\\udc92", "\\ud835\\udc93",
    "\\ud835\\udc94", "\\ud835\\udc95", "\\ud835\\udc96", "\\ud835\\udc97",
    "\\ud835\\udc98", "\\ud835\\udc99", "\\ud835\\udc9a", "\\ud835\\udc9b",
    "\\ud835\\udc9c", "\\ud835\\udc9e", "\\ud835\\udc9f", "\\ud835\\udca2",
    "\\ud835\\udca5", "\\ud835\\udca6", "\\ud835\\udca9", "\\ud835\\udcaa",
    "\\ud835\\udcab", "\\ud835\\udcac", "\\ud835\\udcae", "\\ud835\\udcaf",
    "\\ud835\\udcb0", "\\ud835\\udcb1", "\\ud835\\udcb2", "\\ud835\\udcb3",
    "\\ud835\\udcb4", "\\ud835\\udcb5", "\\ud835\\udcb6", "\\ud835\\udcb7",
    "\\ud835\\udcb8", "\\ud835\\udcb9", "\\ud835\\udcbb", "\\ud835\\udcbd",
    "\\ud835\\udcbe", "\\ud835\\udcbf", "\\ud835\\udcc0", "\\ud835\\udcc1",
    "\\ud835\\udcc2", "\\ud835\\udcc3", "\\ud835\\udcc5", "\\ud835\\udcc6",
    "\\ud835\\udcc7", "\\ud835\\udcc8", "\\ud835\\udcc9", "\\ud835\\udcca",
    "\\ud835\\udccb", "\\ud835\\udccc", "\\ud835\\udccd", "\\ud835\\udcce",
    "\\ud835\\udccf", "\\ud835\\udcd0", "\\ud835\\udcd1", "\\ud835\\udcd2",
    "\\ud835\\udcd3", "\\ud835\\udcd4", "\\ud835\\udcd5", "\\ud835\\udcd6",
    "\\ud835\\udcd7", "\\ud835\\udcd8", "\\ud835\\udcd9", "\\ud835\\udcda",
    "\\ud835\\udcdb", "\\ud835\\udcdc", "\\ud835\\udcdd", "\\ud835\\udcde",
    "\\ud835\\udcdf", "\\ud835\\udce0", "\\ud835\\udce1", "\\ud835\\udce2",
    "\\ud835\\udce3", "\\ud835\\udce4", "\\ud835\\udce5", "\\ud835\\udce6",
    "\\ud835\\udce7", "\\ud835\\udce8", "\\ud835\\udce9", "\\ud835\\udcea",
    "\\ud835\\udceb", "\\ud835\\udcec", "\\ud835\\udced", "\\ud835\\udcee",
    "\\ud835\\udcef", "\\ud835\\udcf0", "\\ud835\\udcf1", "\\ud835\\udcf2",
    "\\ud835\\udcf3", "\\ud835\\udcf4", "\\ud835\\udcf5", "\\ud835\\udcf6",
    "\\ud835\\udcf7", "\\ud835\\udcf8", "\\ud835\\udcf9", "\\ud835\\udcfa",
    "\\ud835\\udcfb", "\\ud835\\udcfc", "\\ud835\\udcfd", "\\ud835\\udcfe",
    "\\ud835\\udcff", "\\ud835\\udd00", "\\ud835\\udd01", "\\ud835\\udd02",
    "\\ud835\\udd03", "\\ud835\\udd04", "\\ud835\\udd05", "\\ud835\\udd07",
    "\\ud835\\udd08", "\\ud835\\udd09", "\\ud835\\udd0a", "\\ud835\\udd0d",
    "\\ud835\\udd0e", "\\ud835\\udd0f", "\\ud835\\udd10", "\\ud835\\udd11",
    "\\ud835\\udd12", "\\ud835\\udd13", "\\ud835\\udd14", "\\ud835\\udd16",
    "\\ud835\\udd17", "\\ud835\\udd18", "\\ud835\\udd19", "\\ud835\\udd1a",
    "\\ud835\\udd1b", "\\ud835\\udd1c", "\\ud835\\udd1e", "\\ud835\\udd1f",
    "\\ud835\\udd20", "\\ud835\\udd21", "\\ud835\\udd22", "\\ud835\\udd23",
    "\\ud835\\udd24", "\\ud835\\udd25", "\\ud835\\udd26", "\\ud835\\udd27",
    "\\ud835\\udd28", "\\ud835\\udd29", "\\ud835\\udd2a", "\\ud835\\udd2b",
    "\\ud835\\udd2c", "\\ud835\\udd2d", "\\ud835\\udd2e", "\\ud835\\udd2f",
    "\\ud835\\udd30", "\\ud835\\udd31", "\\ud835\\udd32", "\\ud835\\udd33",
    "\\ud835\\udd34", "\\ud835\\udd35", "\\ud835\\udd36", "\\ud835\\udd37",
    "\\ud835\\udd38", "\\ud835\\udd39", "\\ud835\\udd3b", "\\ud835\\udd3c",
    "\\ud835\\udd3d", "\\ud835\\udd3e", "\\ud835\\udd40", "\\ud835\\udd41",
    "\\ud835\\udd42", "\\ud835\\udd43", "\\ud835\\udd44", "\\ud835\\udd46",
    "\\ud835\\udd4a", "\\ud835\\udd4b", "\\ud835\\udd4c", "\\ud835\\udd4d",
    "\\ud835\\udd4e", "\\ud835\\udd4f", "\\ud835\\udd50", "\\ud835\\udd52",
    "\\ud835\\udd53", "\\ud835\\udd54", "\\ud835\\udd55", "\\ud835\\udd56",
    "\\ud835\\udd57", "\\ud835\\udd58", "\\ud835\\udd59", "\\ud835\\udd5a",
    "\\ud835\\udd5b", "\\ud835\\udd5c", "\\ud835\\udd5d", "\\ud835\\udd5e",
    "\\ud835\\udd5f", "\\ud835\\udd60", "\\ud835\\udd61", "\\ud835\\udd62",
    "\\ud835\\udd63", "\\ud835\\udd64", "\\ud835\\udd65", "\\ud835\\udd66",
    "\\ud835\\udd67", "\\ud835\\udd68", "\\ud835\\udd69", "\\ud835\\udd6a",
    "\\ud835\\udd6b", "\\ud835\\udd6c", "\\ud835\\udd6d", "\\ud835\\udd6e",
    "\\ud835\\udd6f", "\\ud835\\udd70", "\\ud835\\udd71", "\\ud835\\udd72",
    "\\ud835\\udd73", "\\ud835\\udd74", "\\ud835\\udd75", "\\ud835\\udd76",
    "\\ud835\\udd77", "\\ud835\\udd78", "\\ud835\\udd79", "\\ud835\\udd7a",
    "\\ud835\\udd7b", "\\ud835\\udd7c", "\\ud835\\udd7d", "\\ud835\\udd7e",
    "\\ud835\\udd7f", "\\ud835\\udd80", "\\ud835\\udd81", "\\ud835\\udd82",
    "\\ud835\\udd83", "\\ud835\\udd84", "\\ud835\\udd85", "\\ud835\\udd86",
    "\\ud835\\udd87", "\\ud835\\udd88", "\\ud835\\udd89", "\\ud835\\udd8a",
    "\\ud835\\udd8b", "\\ud835\\udd8c", "\\ud835\\udd8d", "\\ud835\\udd8e",
    "\\ud835\\udd8f", "\\ud835\\udd90", "\\ud835\\udd91", "\\ud835\\udd92",
    "\\ud835\\udd93", "\\ud835\\udd94", "\\ud835\\udd95", "\\ud835\\udd96",
    "\\ud835\\udd97", "\\ud835\\udd98", "\\ud835\\udd99", "\\ud835\\udd9a",
    "\\ud835\\udd9b", "\\ud835\\udd9c", "\\ud835\\udd9d", "\\ud835\\udd9e",
    "\\ud835\\udd9f", "\\ud835\\udda0", "\\ud835\\udda1", "\\ud835\\udda2",
    "\\ud835\\udda3", "\\ud835\\udda4", "\\ud835\\udda5", "\\ud835\\udda6",
    "\\ud835\\udda7", "\\ud835\\udda8", "\\ud835\\udda9", "\\ud835\\uddaa",
    "\\ud835\\uddab", "\\ud835\\uddac", "\\ud835\\uddad", "\\ud835\\uddae",
    "\\ud835\\uddaf", "\\ud835\\uddb0", "\\ud835\\uddb1", "\\ud835\\uddb2",
    "\\ud835\\uddb3", "\\ud835\\uddb4", "\\ud835\\uddb5", "\\ud835\\uddb6",
    "\\ud835\\uddb7", "\\ud835\\uddb8", "\\ud835\\uddb9", "\\ud835\\uddba",
    "\\ud835\\uddbb", "\\ud835\\uddbc", "\\ud835\\uddbd", "\\ud835\\uddbe",
    "\\ud835\\uddbf", "\\ud835\\uddc0", "\\ud835\\uddc1", "\\ud835\\uddc2",
    "\\ud835\\uddc3", "\\ud835\\uddc4", "\\ud835\\uddc5", "\\ud835\\uddc6",
    "\\ud835\\uddc7", "\\ud835\\uddc8", "\\ud835\\uddc9", "\\ud835\\uddca",
    "\\ud835\\uddcb", "\\ud835\\uddcc", "\\ud835\\uddcd", "\\ud835\\uddce",
    "\\ud835\\uddcf", "\\ud835\\uddd0", "\\ud835\\uddd1", "\\ud835\\uddd2",
    "\\ud835\\uddd3", "\\ud835\\uddd4", "\\ud835\\uddd5", "\\ud835\\uddd6",
    "\\ud835\\uddd7", "\\ud835\\uddd8", "\\ud835\\uddd9", "\\ud835\\uddda",
    "\\ud835\\udddb", "\\ud835\\udddc", "\\ud835\\udddd", "\\ud835\\uddde",
    "\\ud835\\udddf", "\\ud835\\udde0", "\\ud835\\udde1", "\\ud835\\udde2",
    "\\ud835\\udde3", "\\ud835\\udde4", "\\ud835\\udde5", "\\ud835\\udde6",
    "\\ud835\\udde7", "\\ud835\\udde8", "\\ud835\\udde9", "\\ud835\\uddea",
    "\\ud835\\uddeb", "\\ud835\\uddec", "\\ud835\\udded", "\\ud835\\uddee",
    "\\ud835\\uddef", "\\ud835\\uddf0", "\\ud835\\uddf1", "\\ud835\\uddf2",
    "\\ud835\\uddf3", "\\ud835\\uddf4", "\\ud835\\uddf5", "\\ud835\\uddf6",
    "\\ud835\\uddf7", "\\ud835\\uddf8", "\\ud835\\uddf9", "\\ud835\\uddfa",
    "\\ud835\\uddfb", "\\ud835\\uddfc", "\\ud835\\uddfd", "\\ud835\\uddfe",
    "\\ud835\\uddff", "\\ud835\\ude00", "\\ud835\\ude01", "\\ud835\\ude02",
    "\\ud835\\ude03", "\\ud835\\ude04", "\\ud835\\ude05", "\\ud835\\ude06",
    "\\ud835\\ude07", "\\ud835\\ude08", "\\ud835\\ude09", "\\ud835\\ude0a",
    "\\ud835\\ude0b", "\\ud835\\ude0c", "\\ud835\\ude0d", "\\ud835\\ude0e",
    "\\ud835\\ude0f", "\\ud835\\ude10", "\\ud835\\ude11", "\\ud835\\ude12",
    "\\ud835\\ude13", "\\ud835\\ude14", "\\ud835\\ude15", "\\ud835\\ude16",
    "\\ud835\\ude17", "\\ud835\\ude18", "\\ud835\\ude19", "\\ud835\\ude1a",
    "\\ud835\\ude1b", "\\ud835\\ude1c", "\\ud835\\ude1d", "\\ud835\\ude1e",
    "\\ud835\\ude1f", "\\ud835\\ude20", "\\ud835\\ude21", "\\ud835\\ude22",
    "\\ud835\\ude23", "\\ud835\\ude24", "\\ud835\\ude25", "\\ud835\\ude26",
    "\\ud835\\ude27", "\\ud835\\ude28", "\\ud835\\ude29", "\\ud835\\ude2a",
    "\\ud835\\ude2b", "\\ud835\\ude2c", "\\ud835\\ude2d", "\\ud835\\ude2e",
    "\\ud835\\ude2f", "\\ud835\\ude30", "\\ud835\\ude31", "\\ud835\\ude32",
    "\\ud835\\ude33", "\\ud835\\ude34", "\\ud835\\ude35", "\\ud835\\ude36",
    "\\ud835\\ude37", "\\ud835\\ude38", "\\ud835\\ude39", "\\ud835\\ude3a",
    "\\ud835\\ude3b", "\\ud835\\ude3c", "\\ud835\\ude3d", "\\ud835\\ude3e",
    "\\ud835\\ude3f", "\\ud835\\ude40", "\\ud835\\ude41", "\\ud835\\ude42",
    "\\ud835\\ude43", "\\ud835\\ude44", "\\ud835\\ude45", "\\ud835\\ude46",
    "\\ud835\\ude47", "\\ud835\\ude48", "\\ud835\\ude49", "\\ud835\\ude4a",
    "\\ud835\\ude4b", "\\ud835\\ude4c", "\\ud835\\ude4d", "\\ud835\\ude4e",
    "\\ud835\\ude4f", "\\ud835\\ude50", "\\ud835\\ude51", "\\ud835\\ude52",
    "\\ud835\\ude53", "\\ud835\\ude54", "\\ud835\\ude55", "\\ud835\\ude56",
    "\\ud835\\ude57", "\\ud835\\ude58", "\\ud835\\ude59", "\\ud835\\ude5a",
    "\\ud835\\ude5b", "\\ud835\\ude5c", "\\ud835\\ude5d", "\\ud835\\ude5e",
    "\\ud835\\ude5f", "\\ud835\\ude60", "\\ud835\\ude61", "\\ud835\\ude62",
    "\\ud835\\ude63", "\\ud835\\ude64", "\\ud835\\ude65", "\\ud835\\ude66",
    "\\ud835\\ude67", "\\ud835\\ude68", "\\ud835\\ude69", "\\ud835\\ude6a",
    "\\ud835\\ude6b", "\\ud835\\ude6c", "\\ud835\\ude6d", "\\ud835\\ude6e",
    "\\ud835\\ude6f", "\\ud835\\ude70", "\\ud835\\ude71", "\\ud835\\ude72",
    "\\ud835\\ude73", "\\ud835\\ude74", "\\ud835\\ude75", "\\ud835\\ude76",
    "\\ud835\\ude77", "\\ud835\\ude78", "\\ud835\\ude79", "\\ud835\\ude7a",
    "\\ud835\\ude7b", "\\ud835\\ude7c", "\\ud835\\ude7d", "\\ud835\\ude7e",
    "\\ud835\\ude7f", "\\ud835\\ude80", "\\ud835\\ude81", "\\ud835\\ude82",
    "\\ud835\\ude83", "\\ud835\\ude84", "\\ud835\\ude85", "\\ud835\\ude86",
    "\\ud835\\ude87", "\\ud835\\ude88", "\\ud835\\ude89", "\\ud835\\ude8a",
    "\\ud835\\ude8b", "\\ud835\\ude8c", "\\ud835\\ude8d", "\\ud835\\ude8e",
    "\\ud835\\ude8f", "\\ud835\\ude90", "\\ud835\\ude91", "\\ud835\\ude92",
    "\\ud835\\ude93", "\\ud835\\ude94", "\\ud835\\ude95", "\\ud835\\ude96",
    "\\ud835\\ude97", "\\ud835\\ude98", "\\ud835\\ude99", "\\ud835\\ude9a",
    "\\ud835\\ude9b", "\\ud835\\ude9c", "\\ud835\\ude9d", "\\ud835\\ude9e",
    "\\ud835\\ude9f", "\\ud835\\udea0", "\\ud835\\udea1", "\\ud835\\udea2",
    "\\ud835\\udea3", "\\ud835\\udea4", "\\ud835\\udea5", "\\ud835\\udea8",
    "\\ud835\\udea9", "\\ud835\\udeaa", "\\ud835\\udeab", "\\ud835\\udeac",
    "\\ud835\\udead", "\\ud835\\udeae", "\\ud835\\udeaf", "\\ud835\\udeb0",
    "\\ud835\\udeb1", "\\ud835\\udeb2", "\\ud835\\udeb3", "\\ud835\\udeb4",
    "\\ud835\\udeb5", "\\ud835\\udeb6", "\\ud835\\udeb7", "\\ud835\\udeb8",
    "\\ud835\\udeb9", "\\ud835\\udeba", "\\ud835\\udebb", "\\ud835\\udebc",
    "\\ud835\\udebd", "\\ud835\\udebe", "\\ud835\\udebf", "\\ud835\\udec0",
    "\\ud835\\udec2", "\\ud835\\udec3", "\\ud835\\udec4", "\\ud835\\udec5",
    "\\ud835\\udec6", "\\ud835\\udec7", "\\ud835\\udec8", "\\ud835\\udec9",
    "\\ud835\\udeca", "\\ud835\\udecb", "\\ud835\\udecc", "\\ud835\\udecd",
    "\\ud835\\udece", "\\ud835\\udecf", "\\ud835\\uded0", "\\ud835\\uded1",
    "\\ud835\\uded2", "\\ud835\\uded3", "\\ud835\\uded4", "\\ud835\\uded5",
    "\\ud835\\uded6", "\\ud835\\uded7", "\\ud835\\uded8", "\\ud835\\uded9",
    "\\ud835\\udeda", "\\ud835\\udedc", "\\ud835\\udedd", "\\ud835\\udede",
    "\\ud835\\udedf", "\\ud835\\udee0", "\\ud835\\udee1", "\\ud835\\udee2",
    "\\ud835\\udee3", "\\ud835\\udee4", "\\ud835\\udee5", "\\ud835\\udee6",
    "\\ud835\\udee7", "\\ud835\\udee8", "\\ud835\\udee9", "\\ud835\\udeea",
    "\\ud835\\udeeb", "\\ud835\\udeec", "\\ud835\\udeed", "\\ud835\\udeee",
    "\\ud835\\udeef", "\\ud835\\udef0", "\\ud835\\udef1", "\\ud835\\udef2",
    "\\ud835\\udef3", "\\ud835\\udef4", "\\ud835\\udef5", "\\ud835\\udef6",
    "\\ud835\\udef7", "\\ud835\\udef8", "\\ud835\\udef9", "\\ud835\\udefa",
    "\\ud835\\udefc", "\\ud835\\udefd", "\\ud835\\udefe", "\\ud835\\udeff",
    "\\ud835\\udf00", "\\ud835\\udf01", "\\ud835\\udf02", "\\ud835\\udf03",
    "\\ud835\\udf04", "\\ud835\\udf05", "\\ud835\\udf06", "\\ud835\\udf07",
    "\\ud835\\udf08", "\\ud835\\udf09", "\\ud835\\udf0a", "\\ud835\\udf0b",
    "\\ud835\\udf0c", "\\ud835\\udf0d", "\\ud835\\udf0e", "\\ud835\\udf0f",
    "\\ud835\\udf10", "\\ud835\\udf11", "\\ud835\\udf12", "\\ud835\\udf13",
    "\\ud835\\udf14", "\\ud835\\udf16", "\\ud835\\udf17", "\\ud835\\udf18",
    "\\ud835\\udf19", "\\ud835\\udf1a", "\\ud835\\udf1b", "\\ud835\\udf1c",
    "\\ud835\\udf1d", "\\ud835\\udf1e", "\\ud835\\udf1f", "\\ud835\\udf20",
    "\\ud835\\udf21", "\\ud835\\udf22", "\\ud835\\udf23", "\\ud835\\udf24",
    "\\ud835\\udf25", "\\ud835\\udf26", "\\ud835\\udf27", "\\ud835\\udf28",
    "\\ud835\\udf29", "\\ud835\\udf2a", "\\ud835\\udf2b", "\\ud835\\udf2c",
    "\\ud835\\udf2d", "\\ud835\\udf2e", "\\ud835\\udf2f", "\\ud835\\udf30",
    "\\ud835\\udf31", "\\ud835\\udf32", "\\ud835\\udf33", "\\ud835\\udf34",
    "\\ud835\\udf36", "\\ud835\\udf37", "\\ud835\\udf38", "\\ud835\\udf39",
    "\\ud835\\udf3a", "\\ud835\\udf3b", "\\ud835\\udf3c", "\\ud835\\udf3d",
    "\\ud835\\udf3e", "\\ud835\\udf3f", "\\ud835\\udf40", "\\ud835\\udf41",
    "\\ud835\\udf42", "\\ud835\\udf43", "\\ud835\\udf44", "\\ud835\\udf45",
    "\\ud835\\udf46", "\\ud835\\udf47", "\\ud835\\udf48", "\\ud835\\udf49",
    "\\ud835\\udf4a", "\\ud835\\udf4b", "\\ud835\\udf4c", "\\ud835\\udf4d",
    "\\ud835\\udf4e", "\\ud835\\udf50", "\\ud835\\udf51", "\\ud835\\udf52",
    "\\ud835\\udf53", "\\ud835\\udf54", "\\ud835\\udf55", "\\ud835\\udf56",
    "\\ud835\\udf57", "\\ud835\\udf58", "\\ud835\\udf59", "\\ud835\\udf5a",
    "\\ud835\\udf5b", "\\ud835\\udf5c", "\\ud835\\udf5d", "\\ud835\\udf5e",
    "\\ud835\\udf5f", "\\ud835\\udf60", "\\ud835\\udf61", "\\ud835\\udf62",
    "\\ud835\\udf63", "\\ud835\\udf64", "\\ud835\\udf65", "\\ud835\\udf66",
    "\\ud835\\udf67", "\\ud835\\udf68", "\\ud835\\udf69", "\\ud835\\udf6a",
    "\\ud835\\udf6b", "\\ud835\\udf6c", "\\ud835\\udf6d", "\\ud835\\udf6e",
    "\\ud835\\udf70", "\\ud835\\udf71", "\\ud835\\udf72", "\\ud835\\udf73",
    "\\ud835\\udf74", "\\ud835\\udf75", "\\ud835\\udf76", "\\ud835\\udf77",
    "\\ud835\\udf78", "\\ud835\\udf79", "\\ud835\\udf7a", "\\ud835\\udf7b",
    "\\ud835\\udf7c", "\\ud835\\udf7d", "\\ud835\\udf7e", "\\ud835\\udf7f",
    "\\ud835\\udf80", "\\ud835\\udf81", "\\ud835\\udf82", "\\ud835\\udf83",
    "\\ud835\\udf84", "\\ud835\\udf85", "\\ud835\\udf86", "\\ud835\\udf87",
    "\\ud835\\udf88", "\\ud835\\udf8a", "\\ud835\\udf8b", "\\ud835\\udf8c",
    "\\ud835\\udf8d", "\\ud835\\udf8e", "\\ud835\\udf8f", "\\ud835\\udf90",
    "\\ud835\\udf91", "\\ud835\\udf92", "\\ud835\\udf93", "\\ud835\\udf94",
    "\\ud835\\udf95", "\\ud835\\udf96", "\\ud835\\udf97", "\\ud835\\udf98",
    "\\ud835\\udf99", "\\ud835\\udf9a", "\\ud835\\udf9b", "\\ud835\\udf9c",
    "\\ud835\\udf9d", "\\ud835\\udf9e", "\\ud835\\udf9f", "\\ud835\\udfa0",
    "\\ud835\\udfa1", "\\ud835\\udfa2", "\\ud835\\udfa3", "\\ud835\\udfa4",
    "\\ud835\\udfa5", "\\ud835\\udfa6", "\\ud835\\udfa7", "\\ud835\\udfa8",
    "\\ud835\\udfaa", "\\ud835\\udfab", "\\ud835\\udfac", "\\ud835\\udfad",
    "\\ud835\\udfae", "\\ud835\\udfaf", "\\ud835\\udfb0", "\\ud835\\udfb1",
    "\\ud835\\udfb2", "\\ud835\\udfb3", "\\ud835\\udfb4", "\\ud835\\udfb5",
    "\\ud835\\udfb6", "\\ud835\\udfb7", "\\ud835\\udfb8", "\\ud835\\udfb9",
    "\\ud835\\udfba", "\\ud835\\udfbb", "\\ud835\\udfbc", "\\ud835\\udfbd",
    "\\ud835\\udfbe", "\\ud835\\udfbf", "\\ud835\\udfc0", "\\ud835\\udfc1",
    "\\ud835\\udfc2", "\\ud835\\udfc4", "\\ud835\\udfc5", "\\ud835\\udfc6",
    "\\ud835\\udfc7", "\\ud835\\udfc8", "\\ud835\\udfc9", "\\ud835\\udfca",
    "\\ud835\\udfcb", "\\ud837\\udf00", "\\ud837\\udf01", "\\ud837\\udf02",
    "\\ud837\\udf03", "\\ud837\\udf04", "\\ud837\\udf05", "\\ud837\\udf06",
    "\\ud837\\udf07", "\\ud837\\udf08", "\\ud837\\udf09", "\\ud837\\udf0b",
    "\\ud837\\udf0c", "\\ud837\\udf0d", "\\ud837\\udf0e", "\\ud837\\udf0f",
    "\\ud837\\udf10", "\\ud837\\udf11", "\\ud837\\udf12", "\\ud837\\udf13",
    "\\ud837\\udf14", "\\ud837\\udf15", "\\ud837\\udf16", "\\ud837\\udf17",
    "\\ud837\\udf18", "\\ud837\\udf19", "\\ud837\\udf1a", "\\ud837\\udf1b",
    "\\ud837\\udf1c", "\\ud837\\udf1d", "\\ud837\\udf1e", "\\ud837\\udf25",
    "\\ud837\\udf26", "\\ud837\\udf27", "\\ud837\\udf28", "\\ud837\\udf29",
    "\\ud837\\udf2a", "\\ud838\\udc30", "\\ud838\\udc31", "\\ud838\\udc32",
    "\\ud838\\udc33", "\\ud838\\udc34", "\\ud838\\udc35", "\\ud838\\udc36",
    "\\ud838\\udc37", "\\ud838\\udc38", "\\ud838\\udc39", "\\ud838\\udc3a",
    "\\ud838\\udc3b", "\\ud838\\udc3c", "\\ud838\\udc3d", "\\ud838\\udc3e",
    "\\ud838\\udc3f", "\\ud838\\udc40", "\\ud838\\udc41", "\\ud838\\udc42",
    "\\ud838\\udc43", "\\ud838\\udc44", "\\ud838\\udc45", "\\ud838\\udc46",
    "\\ud838\\udc47", "\\ud838\\udc48", "\\ud838\\udc49", "\\ud838\\udc4a",
    "\\ud838\\udc4b", "\\ud838\\udc4c", "\\ud838\\udc4d", "\\ud838\\udc4e",
    "\\ud838\\udc4f", "\\ud838\\udc50", "\\ud838\\udc51", "\\ud838\\udc52",
    "\\ud838\\udc53", "\\ud838\\udc54", "\\ud838\\udc55", "\\ud838\\udc56",
    "\\ud838\\udc57", "\\ud838\\udc58", "\\ud838\\udc59", "\\ud838\\udc5a",
    "\\ud838\\udc5b", "\\ud838\\udc5c", "\\ud838\\udc5d", "\\ud838\\udc5e",
    "\\ud838\\udc5f", "\\ud838\\udc60", "\\ud838\\udc61", "\\ud838\\udc62",
    "\\ud838\\udc63", "\\ud838\\udc64", "\\ud838\\udc65", "\\ud838\\udc66",
    "\\ud838\\udc67", "\\ud838\\udc68", "\\ud838\\udc69", "\\ud838\\udc6a",
    "\\ud838\\udc6b", "\\ud838\\udc6c", "\\ud838\\udc6d", "\\ud83a\\udd00",
    "\\ud83a\\udd01", "\\ud83a\\udd02", "\\ud83a\\udd03", "\\ud83a\\udd04",
    "\\ud83a\\udd05", "\\ud83a\\udd06", "\\ud83a\\udd07", "\\ud83a\\udd08",
    "\\ud83a\\udd09", "\\ud83a\\udd0a", "\\ud83a\\udd0b", "\\ud83a\\udd0c",
    "\\ud83a\\udd0d", "\\ud83a\\udd0e", "\\ud83a\\udd0f", "\\ud83a\\udd10",
    "\\ud83a\\udd11", "\\ud83a\\udd12", "\\ud83a\\udd13", "\\ud83a\\udd14",
    "\\ud83a\\udd15", "\\ud83a\\udd16", "\\ud83a\\udd17", "\\ud83a\\udd18",
    "\\ud83a\\udd19", "\\ud83a\\udd1a", "\\ud83a\\udd1b", "\\ud83a\\udd1c",
    "\\ud83a\\udd1d", "\\ud83a\\udd1e", "\\ud83a\\udd1f", "\\ud83a\\udd20",
    "\\ud83a\\udd21", "\\ud83a\\udd22", "\\ud83a\\udd23", "\\ud83a\\udd24",
    "\\ud83a\\udd25", "\\ud83a\\udd26", "\\ud83a\\udd27", "\\ud83a\\udd28",
    "\\ud83a\\udd29", "\\ud83a\\udd2a", "\\ud83a\\udd2b", "\\ud83a\\udd2c",
    "\\ud83a\\udd2d", "\\ud83a\\udd2e", "\\ud83a\\udd2f", "\\ud83a\\udd30",
    "\\ud83a\\udd31", "\\ud83a\\udd32", "\\ud83a\\udd33", "\\ud83a\\udd34",
    "\\ud83a\\udd35", "\\ud83a\\udd36", "\\ud83a\\udd37", "\\ud83a\\udd38",
    "\\ud83a\\udd39", "\\ud83a\\udd3a", "\\ud83a\\udd3b", "\\ud83a\\udd3c",
    "\\ud83a\\udd3d", "\\ud83a\\udd3e", "\\ud83a\\udd3f", "\\ud83a\\udd40",
    "\\ud83a\\udd41", "\\ud83a\\udd42", "\\ud83a\\udd43", "\\ud83c\\udd30",
    "\\ud83c\\udd31", "\\ud83c\\udd32", "\\ud83c\\udd33", "\\ud83c\\udd34",
    "\\ud83c\\udd35", "\\ud83c\\udd36", "\\ud83c\\udd37", "\\ud83c\\udd38",
    "\\ud83c\\udd39", "\\ud83c\\udd3a", "\\ud83c\\udd3b", "\\ud83c\\udd3c",
    "\\ud83c\\udd3d", "\\ud83c\\udd3e", "\\ud83c\\udd3f", "\\ud83c\\udd40",
    "\\ud83c\\udd41", "\\ud83c\\udd42", "\\ud83c\\udd43", "\\ud83c\\udd44",
    "\\ud83c\\udd45", "\\ud83c\\udd46", "\\ud83c\\udd47", "\\ud83c\\udd48",
    "\\ud83c\\udd49", "\\ud83c\\udd50", "\\ud83c\\udd51", "\\ud83c\\udd52",
    "\\ud83c\\udd53", "\\ud83c\\udd54", "\\ud83c\\udd55", "\\ud83c\\udd56",
    "\\ud83c\\udd57", "\\ud83c\\udd58", "\\ud83c\\udd59", "\\ud83c\\udd5a",
    "\\ud83c\\udd5b", "\\ud83c\\udd5c", "\\ud83c\\udd5d", "\\ud83c\\udd5e",
    "\\ud83c\\udd5f", "\\ud83c\\udd60", "\\ud83c\\udd61", "\\ud83c\\udd62",
    "\\ud83c\\udd63", "\\ud83c\\udd64", "\\ud83c\\udd65", "\\ud83c\\udd66",
    "\\ud83c\\udd67", "\\ud83c\\udd68", "\\ud83c\\udd69", "\\ud83c\\udd70",
    "\\ud83c\\udd71", "\\ud83c\\udd72", "\\ud83c\\udd73", "\\ud83c\\udd74",
    "\\ud83c\\udd75", "\\ud83c\\udd76", "\\ud83c\\udd77", "\\ud83c\\udd78",
    "\\ud83c\\udd79", "\\ud83c\\udd7a", "\\ud83c\\udd7b", "\\ud83c\\udd7c",
    "\\ud83c\\udd7d", "\\ud83c\\udd7e", "\\ud83c\\udd7f", "\\ud83c\\udd80",
    "\\ud83c\\udd81", "\\ud83c\\udd82", "\\ud83c\\udd83", "\\ud83c\\udd84",
    "\\ud83c\\udd85", "\\ud83c\\udd86", "\\ud83c\\udd87", "\\ud83c\\udd88",
    "\\ud83c\\udd89"}

\* the characters beyond U+FFFF with the property Case_Ignorable
SupplementaryCaseIgnorable ==
  {"\\ud800\\uddfd", "\\ud800\\udee0", "\\ud800\\udf76", "\\ud800\\udf77",
    "\\ud800\\udf78", "\\ud800\\udf79", "\\ud800\\udf7a", "\\ud801\\udf80",
    "\\ud801\\udf81", "\\ud801\\udf82", "\\ud801\\udf83", "\\ud801\\udf84",
    "\\ud801\\udf85", "\\ud801\\udf87", "\\ud801\\udf88", "\\ud801\\udf89",
    "\\ud801\\udf8a", "\\ud801\\udf8b", "\\ud801\\udf8c", "\\ud801\\udf8d",
    "\\ud801\\udf8e", "\\ud801\\udf8f", "\\ud801\\udf90", "\\ud801\\udf91",
    "\\ud801\\udf92", "\\ud801\\udf93", "\\ud801\\udf94", "\\ud801\\udf95",
    "\\ud801\\udf96", "\\ud801\\udf97", "\\ud801\\udf98", "\\ud801\\udf99",
    "\\ud801\\udf9a", "\\ud801\\udf9b", "\\ud801\\udf9c", "\\ud801\\udf9d",
    "\\ud801\\udf9e", "\\ud801\\udf9f", "\\ud801\\udfa0", "\\ud801\\udfa1",
    "\\ud801\\udfa2", "\\ud801\\udfa3", "\\ud801\\udfa4", "\\ud801\\udfa5",
    "\\ud801\\udfa6", "\\ud801\\udfa7", "\\ud801\\udfa8", "\\ud801\\udfa9",
    "\\ud801\\udfaa", "\\ud801\\udfab", "\\ud801\\udfac", "\\ud801\\udfad",
    "\\ud801\\udfae", "\\ud801\\udfaf", "\\ud801\\udfb0", "\\ud801\\udfb2",
    "\\ud801\\udfb3", "\\ud801\\udfb4", "\\ud801\\udfb5", "\\ud801\\udfb6",
    "\\ud801\\udfb7", "\\ud801\\udfb8", "\\ud801\\udfb9", "\\ud801\\udfba",
    "\\ud802\\ude01", "\\ud802\\ude02", "\\ud802\\ude03", "\\ud802\\ude05",
    "\\ud802\\ude06", "\\ud802\\ude0c", "\\ud802\\ude0d", "\\ud802\\ude0e",
    "\\ud802\\ude0f", "\\ud802\\ude38", "\\ud802\\ude39", "\\ud802\\ude3a",
    "\\ud802\\ude3f", "\\ud802\\udee5", "\\ud802\\udee6", "\\ud803\\udd24",
    "\\ud803\\udd25", "\\ud803\\udd26", "\\ud803\\udd27", "\\ud803\\udd4e",
    "\\ud803\\udd69", "\\ud803\\udd6a", "\\ud803\\udd6b", "\\ud803\\udd6c",
    "\\ud803\\udd6d", "\\ud803\\udd6f", "\\ud803\\udeab", "\\ud803\\udeac",
    "\\ud803\\udec5", "\\ud803\\udefa", "\\ud803\\udefb", "\\ud803\\udefc",
    "\\ud803\\udefd", "\\ud803\\udefe", "\\ud803\\udeff", "\\ud803\\udf46",
    "\\ud803\\udf47", "\\ud803\\udf48", "\\ud803\\udf49", "\\ud803\\udf4a",
    "\\ud803\\udf4b", "\\ud803\\udf4c", "\\ud803\\udf4d", "\\ud803\\udf4e",
    "\\ud803\\udf4f", "\\ud803\\udf50", "\\ud803\\udf82", "\\ud803\\udf83",
    "\\ud803\\udf84", "\\ud803\\udf85", "\\ud804\\udc01", "\\ud804\\udc38",
    "\\ud804\\udc39", "\\ud804\\udc3a", "\\ud804\\udc3b", "\\ud804\\udc3c",
    "\\ud804\\udc3d", "\\ud804\\udc3e", "\\ud804\\udc3f", "\\ud804\\udc40",
    "\\ud804\\udc41", "\\ud804\\udc42", "\\ud804\\udc43", "\\ud804\\udc44",
    "\\ud804\\udc45", "\\ud804\\udc46", "\\ud804\\udc70", "\\ud804\\udc73",
    "\\ud804\\udc74", "\\ud804\\udc7f", "\\ud804\\udc80", "\\ud804\\udc81",
    "\\ud804\\udcb3", "\\ud804\\udcb4", "\\ud804\\udcb5", "\\ud804\\udcb6",
    "\\ud804\\udcb9", "\\ud804\\udcba", "\\ud804\\udcbd", "\\ud804\\udcc2",
    "\\ud804\\udccd", "\\ud804\\udd00", "\\ud804\\udd01", "\\ud804\\udd02",
    "\\ud804\\udd27", "\\ud804\\udd28", "\\ud804\\udd29", "\\ud804\\udd2a",
    "\\ud804\\udd2b", "\\ud804\\udd2d", "\\ud804\\udd2e", "\\ud804\\udd2f",
    "\\ud804\\udd30", "\\ud804\\udd31", "\\ud804\\udd32", "\\ud804\\udd33",
    "\\ud804\\udd34", "\\ud804\\udd73", "\\ud804\\udd80", "\\ud804\\udd81",
    "\\ud804\\uddb6", "\\ud804\\uddb7", "\\ud804\\uddb8", "\\ud804\\uddb9",
    "\\ud804\\uddba", "\\ud804\\uddbb", "\\ud804\\uddbc", "\\ud804\\uddbd",
    "\\ud804\\uddbe", "\\ud804\\uddc9", "\\ud804\\uddca", "\\ud804\\uddcb",
    "\\ud804\\uddcc", "\\ud804\\uddcf", "\\ud804\\ude2f", "\\ud804\\ude30",
    "\\ud804\\ude31", "\\ud804\\ude34", "\\ud804\\ude36", "\\ud804\\ude37",
    "\\ud804\\ude3e", "\\ud804\\ude41", "\\ud804\\udedf", "\\ud804\\udee3",
    "\\ud804\\udee4", "\\ud804\\udee5", "\\ud804\\udee6", "\\ud804\\udee7",
    "\\ud804\\udee8", "\\ud804\\udee9", "\\ud804\\udeea", "\\ud804\\udf00",
    "\\ud804\\udf01", "\\ud804\\udf3b", "\\ud804\\udf3c", "\\ud804\\udf40",
    "\\ud804\\udf66", "\\ud804\\udf67", "\\ud804\\udf68", "\\ud804\\udf69",
    "\\ud804\\udf6a", "\\ud804\\udf6b", "\\ud804\\udf6c", "\\ud804\\udf70",
    "\\ud804\\udf71", "\\ud804\\udf72", "\\ud804\\udf73", "\\ud804\\udf74",
    "\\ud804\\udfbb", "\\ud804\\udfbc", "\\ud804\\udfbd", "\\ud804\\udfbe",
    "\\ud804\\udfbf", "\\ud804\\udfc0", "\\ud804\\udfce", "\\ud804\\udfd0",
    "\\ud804\\udfd2", "\\ud804\\udfe1", "\\ud804\\udfe2", "\\ud805\\udc38",
    "\\ud805\\udc39", "\\ud805\\udc3a", "\\ud805\\udc3b", "\\ud805\\udc3c",
    "\\ud805\\udc3d", "\\ud805\\udc3e", "\\ud805\\udc3f", "\\ud805\\udc42",
    "\\ud805\\udc43", "\\ud805\\udc44", "\\ud805\\udc46", "\\ud805\\udc5e",
    "\\ud805\\udcb3", "\\ud805\\udcb4", "\\ud805\\udcb5", "\\ud805\\udcb6",
    "\\ud805\\udcb7", "\\ud805\\udcb8", "\\ud805\\udcba", "\\ud805\\udcbf",
    "\\ud805\\udcc0", "\\ud805\\udcc2", "\\ud805\\udcc3", "\\ud805\\uddb2",
    "\\ud805\\uddb3", "\\ud805\\uddb4", "\\ud805\\uddb5", "\\ud805\\uddbc",
    "\\ud805\\uddbd", "\\ud805\\uddbf", "\\ud805\\uddc0", "\\ud805\\udddc",
    "\\ud805\\udddd", "\\ud805\\ude33", "\\ud805\\ude34", "\\ud805\\ude35",
    "\\ud805\\ude36", "\\ud805\\ude37", "\\ud805\\ude38", "\\ud805\\ude39",
    "\\ud805\\ude3a", "\\ud805\\ude3d", "\\ud805\\ude3f", "\\ud805\\ude40",
    "\\ud805\\udeab", "\\ud805\\udead", "\\ud805\\udeb0", "\\ud805\\udeb1",
    "\\ud805\\udeb2", "\\ud805\\udeb3", "\\ud805\\udeb4", "\\ud805\\udeb5",
    "\\ud805\\udeb7", "\\ud805\\udf1d", "\\ud805\\udf1f", "\\ud805\\udf22",
    "\\ud805\\udf23", "\\ud805\\udf24", "\\ud805\\udf25", "\\ud805\\udf27",
    "\\ud805\\udf28", "\\ud805\\udf29", "\\ud805\\udf2a", "\\ud805\\udf2b",
    "\\ud806\\udc2f", "\\ud806\\udc30", "\\ud806\\udc31", "\\ud806\\udc32",
    "\\ud806\\udc33", "\\ud806\\udc34", "\\ud806\\udc35", "\\ud806\\udc36",
    "\\ud806\\udc37", "\\ud806\\udc39", "\\ud806\\udc3a", "\\ud806\\udd3b",
    "\\ud806\\udd3c", "\\ud806\\udd3e", "\\ud806\\udd43", "\\ud806\\uddd4",
    "\\ud806\\uddd5", "\\ud806\\uddd6", "\\ud806\\uddd7", "\\ud806\\uddda",
    "\\ud806\\udddb", "\\ud806\\udde0", "\\ud806\\ude01", "\\ud806\\ude02",
    "\\ud806\\ude03", "\\ud806\\ude04", "\\ud806\\ude05", "\\ud806\\ude06",
    "\\ud806\\ude07", "\\ud806\\ude08", "\\ud806\\ude09", "\\ud806\\ude0a",
    "\\ud806\\ude33", "\\ud806\\ude34", "\\ud806\\ude35", "\\ud806\\ude36",
    "\\ud806\\ude37", "\\ud806\\ude38", "\\ud806\\ude3b", "\\ud806\\ude3c",
    "\\ud806\\ude3d", "\\ud806\\ude3e", "\\ud806\\ude47", "\\ud806\\ude51",
    "\\ud806\\ude52", "\\ud806\\ude53", "\\ud806\\ude54", "\\ud806\\ude55",
    "\\ud806\\ude56", "\\ud806\\ude59", "\\ud806\\ude5a", "\\ud806\\ude5b",
    "\\ud806\\ude8a", "\\ud806\\ude8b", "\\ud806\\ude8c", "\\ud806\\ude8d",
    "\\ud806\\ude8e", "\\ud806\\ude8f", "\\ud806\\ude90", "\\ud806\\ude91",
    "\\ud806\\ude92", "\\ud806\\ude93", "\\ud806\\ude94", "\\ud806\\ude95",
    "\\ud806\\ude96", "\\ud806\\ude98", "\\ud806\\ude99", "\\ud806\\udf60",
    "\\ud806\\udf62", "\\ud806\\udf63", "\\ud806\\udf64", "\\ud806\\udf66",
    "\\ud807\\udc30", "\\ud807\\udc31", "\\ud807\\udc32", "\\ud807\\udc33",
    "\\ud807\\udc34", "\\ud807\\udc35", "\\ud807\\udc36", "\\ud807\\udc38",
    "\\ud807\\udc39", "\\ud807\\udc3a", "\\ud807\\udc3b", "\\ud807\\udc3c",
    "\\ud807\\udc3d", "\\ud807\\udc3f", "\\ud807\\udc92", "\\ud807\\udc93",
    "\\ud807\\udc94", "\\ud807\\udc95", "\\ud807\\udc96", "\\ud807\\udc97",
    "\\ud807\\udc98", "\\ud807\\udc99", "\\ud807\\udc9a", "\\ud807\\udc9b",
    "\\ud807\\udc9c", "\\ud807\\udc9d", "\\ud807\\udc9e", "\\ud807\\udc9f",
    "\\ud807\\udca0", "\\ud807\\udca1", "\\ud807\\udca2", "\\ud807\\udca3",
    "\\ud807\\udca4", "\\ud807\\udca5", "\\ud807\\udca6", "\\ud807\\udca7",
    "\\ud807\\udcaa", "\\ud807\\udcab", "\\ud807\\udcac", "\\ud807\\udcad",
    "\\ud807\\udcae", "\\ud807\\udcaf", "\\ud807\\udcb0", "\\ud807\\udcb2",
    "\\ud807\\udcb3", "\\ud807\\udcb5", "\\ud807\\udcb6", "\\ud807\\udd31",
    "\\ud807\\udd32", "\\ud807\\udd33", "\\ud807\\udd34", "\\ud807\\udd35",
    "\\ud807\\udd36", "\\ud807\\udd3a", "\\ud807\\udd3c", "\\ud807\\udd3d",
    "\\ud807\\udd3f", "\\ud807\\udd40", "\\ud807\\udd41", "\\ud807\\udd42",
    "\\ud807\\udd43", "\\ud807\\udd44", "\\ud807\\udd45", "\\ud807\\udd47",
    "\\ud807\\udd90", "\\ud807\\udd91", "\\ud807\\udd95", "\\ud807\\udd97",
    "\\ud807\\uddd9", "\\ud807\\udef3", "\\ud807\\udef4", "\\ud807\\udf00",
    "\\ud807\\udf01", "\\ud807\\udf36", "\\ud807\\udf37", "\\ud807\\udf38",
    "\\ud807\\udf39", "\\ud807\\udf3a", "\\ud807\\udf40", "\\ud807\\udf42",
    "\\ud807\\udf5a", "\\ud80d\\udc30", "\\ud80d\\udc31", "\\ud80d\\udc32",
    "\\ud80d\\udc33", "\\ud80d\\udc34", "\\ud80d\\udc35", "\\ud80d\\udc36",
    "\\ud80d\\udc37", "\\ud80d\\udc38", "\\ud80d\\udc39", "\\ud80d\\udc3a",
    "\\ud80d\\udc3b", "\\ud80d\\udc3c", "\\ud80d\\udc3d", "\\ud80d\\udc3e",
    "\\ud80d\\udc3f", "\\ud80d\\udc40", "\\ud80d\\udc47", "\\ud80d\\udc48",
    "\\ud80d\\udc49", "\\ud80d\\udc4a", "\\ud80d\\udc4b", "\\ud80d\\udc4c",
    "\\ud80d\\udc4d", "\\ud80d\\udc4e", "\\ud80d\\udc4f", "\\ud80d\\udc50",
    "\\ud80d\\udc51", "\\ud80d\\udc52", "\\ud80d\\udc53", "\\ud80d\\udc54",
    "\\ud80d\\udc55", "\\ud818\\udd1e", "\\ud818\\udd1f", "\\ud818\\udd20",
    "\\ud818\\udd21", "\\ud818\\udd22", "\\ud818\\udd23", "\\ud818\\udd24",
    "\\ud818\\udd25", "\\ud818\\udd26", "\\ud818\\udd27", "\\ud818\\udd28",
    "\\ud818\\udd29", "\\ud818\\udd2d", "\\ud818\\udd2e", "\\ud818\\udd2f",
    "\\ud81a\\udef0", "\\ud81a\\udef1", "\\ud81a\\udef2", "\\ud81a\\udef3",
    "\\ud81a\\udef4", "\\ud81a\\udf30", "\\ud81a\\udf31", "\\ud81a\\udf32",
    "\\ud81a\\udf33", "\\ud81a\\udf34", "\\ud81a\\udf35", "\\ud81a\\udf36",
    "\\ud81a\\udf40", "\\ud81a\\udf41", "\\ud81a\\udf42", "\\ud81a\\udf43",
    "\\ud81b\\udd40", "\\ud81b\\udd41", "\\ud81b\\udd42", "\\ud81b\\udd6b",
    "\\ud81b\\udd6c", "\\ud81b\\udf4f", "\\ud81b\\udf8f", "\\ud81b\\udf90",
    "\\ud81b\\udf91", "\\ud81b\\udf92", "\\ud81b\\udf93", "\\ud81b\\udf94",
    "\\ud81b\\udf95", "\\ud81b\\udf96", "\\ud81b\\udf97", "\\ud81b\\udf98",
    "\\ud81b\\udf99", "\\ud81b\\udf9a", "\\ud81b\\udf9b", "\\ud81b\\udf9c",
    "\\ud81b\\udf9d", "\\ud81b\\udf9e", "\\ud81b\\udf9f", "\\ud81b\\udfe0",
    "\\ud81b\\udfe1", "\\ud81b\\udfe3", "\\ud81b\\udfe4", "\\ud81b\\udff2",
    "\\ud81b\\udff3", "\\ud82b\\udff0", "\\ud82b\\udff1", "\\ud82b\\udff2",
    "\\ud82b\\udff3", "\\ud82b\\udff5", "\\ud82b\\udff6", "\\ud82b\\udff7",
    "\\ud82b\\udff8", "\\ud82b\\udff9", "\\ud82b\\udffa", "\\ud82b\\udffb",
    "\\ud82b\\udffd", "\\ud82b\\udffe", "\\ud82f\\udc9d", "\\ud82f\\udc9e",
    "\\ud82f\\udca0", "\\ud82f\\udca1", "\\ud82f\\udca2", "\\ud82f\\udca3",
    "\\ud833\\udf00", "\\ud833\\udf01", "\\ud833\\udf02", "\\ud833\\udf03",
    "\\ud833\\udf04", "\\ud833\\udf05", "\\ud833\\udf06", "\\ud833\\udf07",
    "\\ud833\\udf08", "\\ud833\\udf09", "\\ud833\\udf0a", "\\ud833\\udf0b",
    "\\ud833\\udf0c", "\\ud833\\udf0d", "\\ud833\\udf0e", "\\ud833\\udf0f",
    "\\ud833\\udf10", "\\ud833\\udf11", "\\ud833\\udf12", "\\ud833\\udf13",
    "\\ud833\\udf14", "\\ud833\\udf15", "\\ud833\\udf16", "\\ud833\\udf17",
    "\\ud833\\udf18", "\\ud833\\udf19", "\\ud833\\udf1a", "\\ud833\\udf1b",
    "\\ud833\\udf1c", "\\ud833\\udf1d", "\\ud833\\udf1e", "\\ud833\\udf1f",
    "\\ud833\\udf20", "\\ud833\\udf21", "\\ud833\\udf22", "\\ud833\\udf23",
    "\\ud833\\udf24", "\\ud833\\udf25", "\\ud833\\udf26", "\\ud833\\udf27",
    "\\ud833\\udf28", "\\ud833\\udf29", "\\ud833\\udf2a", "\\ud833\\udf2b",
    "\\ud833\\udf2c", "\\ud833\\udf2d", "\\ud833\\udf30", "\\ud833\\udf31",
    "\\ud833\\udf32", "\\ud833\\udf33", "\\ud833\\udf34", "\\ud833\\udf35",
    "\\ud833\\udf36", "\\ud833\\udf37", "\\ud833\\udf38", "\\ud833\\udf39",
    "\\ud833\\udf3a", "\\ud833\\udf3b", "\\ud833\\udf3c", "\\ud833\\udf3d",
    "\\ud833\\udf3e", "\\ud833\\udf3f", "\\ud833\\udf40", "\\ud833\\udf41",
    "\\ud833\\udf42", "\\ud833\\udf43", "\\ud833\\udf44", "\\ud833\\udf45",
    "\\ud833\\udf46", "\\ud834\\udd67", "\\ud834\\udd68", "\\ud834\\udd69",
    "\\ud834\\udd73", "\\ud834\\udd74", "\\ud834\\udd75", "\\ud834\\udd76",
    "\\ud834\\udd77", "\\ud834\\udd78", "\\ud834\\udd79", "\\ud834\\udd7a",
    "\\ud834\\udd7b", "\\ud834\\udd7c", "\\ud834\\udd7d", "\\ud834\\udd7e",
    "\\ud834\\udd7f", "\\ud834\\udd80", "\\ud834\\udd81", "\\ud834\\udd82",
    "\\ud834\\udd85", "\\ud834\\udd86", "\\ud834\\udd87", "\\ud834\\udd88",
    "\\ud834\\udd89", "\\ud834\\udd8a", "\\ud834\\udd8b", "\\ud834\\uddaa",
    "\\ud834\\uddab", "\\ud834\\uddac", "\\ud834\\uddad", "\\ud834\\ude42",
    "\\ud834\\ude43", "\\ud834\\ude44", "\\ud836\\ude00", "\\ud836\\ude01",
    "\\ud836\\ude02", "\\ud836\\ude03", "\\ud836\\ude04", "\\ud836\\ude05",
    "\\ud836\\ude06", "\\ud836\\ude07", "\\ud836\\ude08", "\\ud836\\ude09",
    "\\ud836\\ude0a", "\\ud836\\ude0b", "\\ud836\\ude0c", "\\ud836\\ude0d",
    "\\ud836\\ude0e", "\\ud836\\ude0f", "\\ud836\\ude10", "\\ud836\\ude11",
    "\\ud836\\ude12", "\\ud836\\ude13", "\\ud836\\ude14", "\\ud836\\ude15",
    "\\ud836\\ude16", "\\ud836\\ude17", "\\ud836\\ude18", "\\ud836\\ude19",
    "\\ud836\\ude1a", "\\ud836\\ude1b", "\\ud836\\ude1c", "\\ud836\\ude1d",
    "\\ud836\\ude1e", "\\ud836\\ude1f", "\\ud836\\ude20", "\\ud836\\ude21",
    "\\ud836\\ude22", "\\ud836\\ude23", "\\ud836\\ude24", "\\ud836\\ude25",
    "\\ud836\\ude26", "\\ud836\\ude27", "\\ud836\\ude28", "\\ud836\\ude29",
    "\\ud836\\ude2a", "\\ud836\\ude2b", "\\ud836\\ude2c", "\\ud836\\ude2d",
    "\\ud836\\ude2e", "\\ud836\\ude2f", "\\ud836\\ude30", "\\ud836\\ude31",
    "\\ud836\\ude32", "\\ud836\\ude33", "\\ud836\\ude34", "\\ud836\\ude35",
    "\\ud836\\ude36", "\\ud836\\ude3b", "\\ud836\\ude3c", "\\ud836\\ude3d",
    "\\ud836\\ude3e", "\\ud836\\ude3f", "\\ud836\\ude40", "\\ud836\\ude41",
    "\\ud836\\ude42", "\\ud836\\ude43", "\\ud836\\ude44", "\\ud836\\ude45",
    "\\ud836\\ude46", "\\ud836\\ude47", "\\ud836\\ude48", "\\ud836\\ude49",
    "\\ud836\\ude4a", "\\ud836\\ude4b", "\\ud836\\ude4c", "\\ud836\\ude4d",
    "\\ud836\\ude4e", "\\ud836\\ude4f", "\\ud836\\ude50", "\\ud836\\ude51",
    "\\ud836\\ude52", "\\ud836\\ude53", "\\ud836\\ude54", "\\ud836\\ude55",
    "\\ud836\\ude56", "\\ud836\\ude57", "\\ud836\\ude58", "\\ud836\\ude59",
    "\\ud836\\ude5a", "\\ud836\\ude5b", "\\ud836\\ude5c", "\\ud836\\ude5d",
    "\\ud836\\ude5e", "\\ud836\\ude5f", "\\ud836\\ude60", "\\ud836\\ude61",
    "\\ud836\\ude62", "\\ud836\\ude63", "\\ud836\\ude64", "\\ud836\\ude65",
    "\\ud836\\ude66", "\\ud836\\ude67", "\\ud836\\ude68", "\\ud836\\ude69",
    "\\ud836\\ude6a", "\\ud836\\ude6b", "\\ud836\\ude6c", "\\ud836\\ude75",
    "\\ud836\\ude84", "\\ud836\\ude9b", "\\ud836\\ude9c", "\\ud836\\ude9d",
    "\\ud836\\ude9e", "\\ud836\\ude9f", "\\ud836\\udea1", "\\ud836\\udea2",
    "\\ud836\\udea3", "\\ud836\\udea4", "\\ud836\\udea5", "\\ud836\\udea6",
    "\\ud836\\udea7", "\\ud836\\udea8", "\\ud836\\udea9", "\\ud836\\udeaa",
    "\\ud836\\udeab", "\\ud836\\udeac", "\\ud836\\udead", "\\ud836\\udeae",
    "\\ud836\\udeaf", "\\ud838\\udc00", "\\ud838\\udc01", "\\ud838\\udc02",
    "\\ud838\\udc03", "\\ud838\\udc04", "\\ud838\\udc05", "\\ud838\\udc06",
    "\\ud838\\udc08", "\\ud838\\udc09", "\\ud838\\udc0a", "\\ud838\\udc0b",
    "\\ud838\\udc0c", "\\ud838\\udc0d", "\\ud838\\udc0e", "\\ud838\\udc0f",
    "\\ud838\\udc10", "\\ud838\\udc11", "\\ud838\\udc12", "\\ud838\\udc13",
    "\\ud838\\udc14", "\\ud838\\udc15", "\\ud838\\udc16", "\\ud838\\udc17",
    "\\ud838\\udc18", "\\ud838\\udc1b", "\\ud838\\udc1c", "\\ud838\\udc1d",
    "\\ud838\\udc1e", "\\ud838\\udc1f", "\\ud838\\udc20", "\\ud838\\udc21",
    "\\ud838\\udc23", "\\ud838\\udc24", "\\ud838\\udc26", "\\ud838\\udc27",
    "\\ud838\\udc28", "\\ud838\\udc29", "\\ud838\\udc2a", "\\ud838\\udc30",
    "\\ud838\\udc31", "\\ud838\\udc32", "\\ud838\\udc33", "\\ud838\\udc34",
    "\\ud838\\udc35", "\\ud838\\udc36", "\\ud838\\udc37", "\\ud838\\udc38",
    "\\ud838\\udc39", "\\ud838\\udc3a", "\\ud838\\udc3b", "\\ud838\\udc3c",
    "\\ud838\\udc3d", "\\ud838\\udc3e", "\\ud838\\udc3f", "\\ud838\\udc40",
    "\\ud838\\udc41", "\\ud838\\udc42", "\\ud838\\udc43", "\\ud838\\udc44",
    "\\ud838\\udc45", "\\ud838\\udc46", "\\ud838\\udc47", "\\ud838\\udc48",
    "\\ud838\\udc49", "\\ud838\\udc4a", "\\ud838\\udc4b", "\\ud838\\udc4c",
    "\\ud838\\udc4d", "\\ud838\\udc4e", "\\ud838\\udc4f", "\\ud838\\udc50",
    "\\ud838\\udc51", "\\ud838\\udc52", "\\ud838\\udc53", "\\ud838\\udc54",
    "\\ud838\\udc55", "\\ud838\\udc56", "\\ud838\\udc57", "\\ud838\\udc58",
    "\\ud838\\udc59", "\\ud838\\udc5a", "\\ud838\\udc5b", "\\ud838\\udc5c",
    "\\ud838\\udc5d", "\\ud838\\udc5e", "\\ud838\\udc5f", "\\ud838\\udc60",
    "\\ud838\\udc61", "\\ud838\\udc62", "\\ud838\\udc63", "\\ud838\\udc64",
    "\\ud838\\udc65", "\\ud838\\udc66", "\\ud838\\udc67", "\\ud838\\udc68",
    "\\ud838\\udc69", "\\ud838\\udc6a", "\\ud838\\udc6b", "\\ud838\\udc6c",
    "\\ud838\\udc6d", "\\ud838\\udc8f", "\\ud838\\udd30", "\\ud838\\udd31",
    "\\ud838\\udd32", "\\ud838\\udd33", "\\ud838\\udd34", "\\ud838\\udd35",
    "\\ud838\\udd36", "\\ud838\\udd37", "\\ud838\\udd38", "\\ud838\\udd39",
    "\\ud838\\udd3a", "\\ud838\\udd3b", "\\ud838\\udd3c", "\\ud838\\udd3d",
    "\\ud838\\udeae", "\\ud838\\udeec", "\\ud838\\udeed", "\\ud838\\udeee",
    "\\ud838\\udeef", "\\ud839\\udceb", "\\ud839\\udcec", "\\ud839\\udced",
    "\\ud839\\udcee", "\\ud839\\udcef", "\\ud839\\uddee", "\\ud839\\uddef",
    "\\ud839\\udee3", "\\ud839\\udee6", "\\ud839\\udeee", "\\ud839\\udeef",
    "\\ud839\\udef5", "\\ud839\\udeff", "\\ud83a\\udcd0", "\\ud83a\\udcd1",
    "\\ud83a\\udcd2", "\\ud83a\\udcd3", "\\ud83a\\udcd4", "\\ud83a\\udcd5",
    "\\ud83a\\udcd6", "\\ud83a\\udd44", "\\ud83a\\udd45", "\\ud83a\\udd46",
    "\\ud83a\\udd47", "\\ud83a\\udd48", "\\ud83a\\udd49", "\\ud83a\\udd4a",
    "\\ud83a\\udd4b", "\\ud83c\\udffb", "\\ud83c\\udffc", "\\ud83c\\udffd",
    "\\ud83c\\udffe", "\\ud83c\\udfff", "\\udb40\\udc01", "\\udb40\\udc20",
    "\\udb40\\udc21", "\\udb40\\udc22", "\\udb40\\udc23", "\\udb40\\udc24",
    "\\udb40\\udc25", "\\udb40\\udc26", "\\udb40\\udc27", "\\udb40\\udc28",
    "\\udb40\\udc29", "\\udb40\\udc2a", "\\udb40\\udc2b", "\\udb40\\udc2c",
    "\\udb40\\udc2d", "\\udb40\\udc2e", "\\udb40\\udc2f", "\\udb40\\udc30",
    "\\udb40\\udc31", "\\udb40\\udc32", "\\udb40\\udc33", "\\udb40\\udc34",
    "\\udb40\\udc35", "\\udb40\\udc36", "\\udb40\\udc37", "\\udb40\\udc38",
    "\\udb40\\udc39", "\\udb40\\udc3a", "\\udb40\\udc3b", "\\udb40\\udc3c",
    "\\udb40\\udc3d", "\\udb40\\udc3e", "\\udb40\\udc3f", "\\udb40\\udc40",
    "\\udb40\\udc41", "\\udb40\\udc42", "\\udb40\\udc43", "\\udb40\\udc44",
    "\\udb40\\udc45", "\\udb40\\udc46", "\\udb40\\udc47", "\\udb40\\udc48",
    "\\udb40\\udc49", "\\udb40\\udc4a", "\\udb40\\udc4b", "\\udb40\\udc4c",
    "\\udb40\\udc4d", "\\udb40\\udc4e", "\\udb40\\udc4f", "\\udb40\\udc50",
    "\\udb40\\udc51", "\\udb40\\udc52", "\\udb40\\udc53", "\\udb40\\udc54",
    "\\udb40\\udc55", "\\udb40\\udc56", "\\udb40\\udc57", "\\udb40\\udc58",
    "\\udb40\\udc59", "\\udb40\\udc5a", "\\udb40\\udc5b", "\\udb40\\udc5c",
    "\\udb40\\udc5d", "\\udb40\\udc5e", "\\udb40\\udc5f", "\\udb40\\udc60",
    "\\udb40\\udc61", "\\udb40\\udc62", "\\udb40\\udc63", "\\udb40\\udc64",
    "\\udb40\\udc65", "\\udb40\\udc66", "\\udb40\\udc67", "\\udb40\\udc68",
    "\\udb40\\udc69", "\\udb40\\udc6a", "\\udb40\\udc6b", "\\udb40\\udc6c",
    "\\udb40\\udc6d", "\\udb40\\udc6e", "\\udb40\\udc6f", "\\udb40\\udc70",
    "\\udb40\\udc71", "\\udb40\\udc72", "\\udb40\\udc73", "\\udb40\\udc74",
    "\\udb40\\udc75", "\\udb40\\udc76", "\\udb40\\udc77", "\\udb40\\udc78",
    "\\udb40\\udc79", "\\udb40\\udc7a", "\\udb40\\udc7b", "\\udb40\\udc7c",
    "\\udb40\\udc7d", "\\udb40\\udc7e", "\\udb40\\udc7f", "\\udb40\\udd00",
    "\\udb40\\udd01", "\\udb40\\udd02", "\\udb40\\udd03", "\\udb40\\udd04",
    "\\udb40\\udd05", "\\udb40\\udd06", "\\udb40\\udd07", "\\udb40\\udd08",
    "\\udb40\\udd09", "\\udb40\\udd0a", "\\udb40\\udd0b", "\\udb40\\udd0c",
    "\\udb40\\udd0d", "\\udb40\\udd0e", "\\udb40\\udd0f", "\\udb40\\udd10",
    "\\udb40\\udd11", "\\udb40\\udd12", "\\udb40\\udd13", "\\udb40\\udd14",
    "\\udb40\\udd15", "\\udb40\\udd16", "\\udb40\\udd17", "\\udb40\\udd18",
    "\\udb40\\udd19", "\\udb40\\udd1a", "\\udb40\\udd1b", "\\udb40\\udd1c",
    "\\udb40\\udd1d", "\\udb40\\udd1e", "\\udb40\\udd1f", "\\udb40\\udd20",
    "\\udb40\\udd21", "\\udb40\\udd22", "\\udb40\\udd23", "\\udb40\\udd24",
    "\\udb40\\udd25", "\\udb40\\udd26", "\\udb40\\udd27", "\\udb40\\udd28",
    "\\udb40\\udd29", "\\udb40\\udd2a", "\\udb40\\udd2b", "\\udb40\\udd2c",
    "\\udb40\\udd2d", "\\udb40\\udd2e", "\\udb40\\udd2f", "\\udb40\\udd30",
    "\\udb40\\udd31", "\\udb40\\udd32", "\\udb40\\udd33", "\\udb40\\udd34",
    "\\udb40\\udd35", "\\udb40\\udd36", "\\udb40\\udd37", "\\udb40\\udd38",
    "\\udb40\\udd39", "\\udb40\\udd3a", "\\udb40\\udd3b", "\\udb40\\udd3c",
    "\\udb40\\udd3d", "\\udb40\\udd3e", "\\udb40\\udd3f", "\\udb40\\udd40",
    "\\udb40\\udd41", "\\udb40\\udd42", "\\udb40\\udd43", "\\udb40\\udd44",
    "\\udb40\\udd45", "\\udb40\\udd46", "\\udb40\\udd47", "\\udb40\\udd48",
    "\\udb40\\udd49", "\\udb40\\udd4a", "\\udb40\\udd4b", "\\udb40\\udd4c",
    "\\udb40\\udd4d", "\\udb40\\udd4e", "\\udb40\\udd4f", "\\udb40\\udd50",
    "\\udb40\\udd51", "\\udb40\\udd52", "\\udb40\\udd53", "\\udb40\\udd54",
    "\\udb40\\udd55", "\\udb40\\udd56", "\\udb40\\udd57", "\\udb40\\udd58",
    "\\udb40\\udd59", "\\udb40\\udd5a", "\\udb40\\udd5b", "\\udb40\\udd5c",
    "\\udb40\\udd5d", "\\udb40\\udd5e", "\\udb40\\udd5f", "\\udb40\\udd60",
    "\\udb40\\udd61", "\\udb40\\udd62", "\\udb40\\udd63", "\\udb40\\udd64",
    "\\udb40\\udd65", "\\udb40\\udd66", "\\udb40\\udd67", "\\udb40\\udd68",
    "\\udb40\\udd69", "\\udb40\\udd6a", "\\udb40\\udd6b", "\\udb40\\udd6c",
    "\\udb40\\udd6d", "\\udb40\\udd6e", "\\udb40\\udd6f", "\\udb40\\udd70",
    "\\udb40\\udd71", "\\udb40\\udd72", "\\udb40\\udd73", "\\udb40\\udd74",
    "\\udb40\\udd75", "\\udb40\\udd76", "\\udb40\\udd77", "\\udb40\\udd78",
    "\\udb40\\udd79", "\\udb40\\udd7a", "\\udb40\\udd7b", "\\udb40\\udd7c",
    "\\udb40\\udd7d", "\\udb40\\udd7e", "\\udb40\\udd7f", "\\udb40\\udd80",
    "\\udb40\\udd81", "\\udb40\\udd82", "\\udb40\\udd83", "\\udb40\\udd84",
    "\\udb40\\udd85", "\\udb40\\udd86", "\\udb40\\udd87", "\\udb40\\udd88",
    "\\udb40\\udd89", "\\udb40\\udd8a", "\\udb40\\udd8b", "\\udb40\\udd8c",
    "\\udb40\\udd8d", "\\udb40\\udd8e", "\\udb40\\udd8f", "\\udb40\\udd90",
    "\\udb40\\udd91", "\\udb40\\udd92", "\\udb40\\udd93", "\\udb40\\udd94",
    "\\udb40\\udd95", "\\udb40\\udd96", "\\udb40\\udd97", "\\udb40\\udd98",
    "\\udb40\\udd99", "\\udb40\\udd9a", "\\udb40\\udd9b", "\\udb40\\udd9c",
    "\\udb40\\udd9d", "\\udb40\\udd9e", "\\udb40\\udd9f", "\\udb40\\udda0",
    "\\udb40\\udda1", "\\udb40\\udda2", "\\udb40\\udda3", "\\udb40\\udda4",
    "\\udb40\\udda5", "\\udb40\\udda6", "\\udb40\\udda7", "\\udb40\\udda8",
    "\\udb40\\udda9", "\\udb40\\uddaa", "\\udb40\\uddab", "\\udb40\\uddac",
    "\\udb40\\uddad", "\\udb40\\uddae", "\\udb40\\uddaf", "\\udb40\\uddb0",
    "\\udb40\\uddb1", "\\udb40\\uddb2", "\\udb40\\uddb3", "\\udb40\\uddb4",
    "\\udb40\\uddb5", "\\udb40\\uddb6", "\\udb40\\uddb7", "\\udb40\\uddb8",
    "\\udb40\\uddb9", "\\udb40\\uddba", "\\udb40\\uddbb", "\\udb40\\uddbc",
    "\\udb40\\uddbd", "\\udb40\\uddbe", "\\udb40\\uddbf", "\\udb40\\uddc0",
    "\\udb40\\uddc1", "\\udb40\\uddc2", "\\udb40\\uddc3", "\\udb40\\uddc4",
    "\\udb40\\uddc5", "\\udb40\\uddc6", "\\udb40\\uddc7", "\\udb40\\uddc8",
    "\\udb40\\uddc9", "\\udb40\\uddca", "\\udb40\\uddcb", "\\udb40\\uddcc",
    "\\udb40\\uddcd", "\\udb40\\uddce", "\\udb40\\uddcf", "\\udb40\\uddd0",
    "\\udb40\\uddd1", "\\udb40\\uddd2", "\\udb40\\uddd3", "\\udb40\\uddd4",
    "\\udb40\\uddd5", "\\udb40\\uddd6", "\\udb40\\uddd7", "\\udb40\\uddd8",
    "\\udb40\\uddd9", "\\udb40\\uddda", "\\udb40\\udddb", "\\udb40\\udddc",
    "\\udb40\\udddd", "\\udb40\\uddde", "\\udb40\\udddf", "\\udb40\\udde0",
    "\\udb40\\udde1", "\\udb40\\udde2", "\\udb40\\udde3", "\\udb40\\udde4",
    "\\udb40\\udde5", "\\udb40\\udde6", "\\udb40\\udde7", "\\udb40\\udde8",
    "\\udb40\\udde9", "\\udb40\\uddea", "\\udb40\\uddeb", "\\udb40\\uddec",
    "\\udb40\\udded", "\\udb40\\uddee", "\\udb40\\uddef"}

\* the characters a table of rows of the given width has a row for
Keys(table, width) == {table[i] : i \in {j \in DOMAIN table : j % width = 1}}

\* where the row of c begins
IndexOf(c, table, width) ==
  CHOOSE i \in DOMAIN table : i % width = 1 /\ table[i] = c

LowerCaseChanged == Keys(LowerCasePairs, 2)

UpperCaseChanged == Keys(UpperCasePairs, 2)

\* the characters whose upper case is several characters
SpecialUpperCase == Keys(UpperCaseExpansions, 4)

SupplementaryLowerCaseChanged == Keys(SupplementaryLowerCasePairs, 3)

\* the character after c in the pairs, c itself when it is in none
Mapped(c, pairs, changed) ==
  IF c \in changed THEN pairs[IndexOf(c, pairs, 2) + 1] ELSE c

\* the upper case in the row that begins at k
Expansion(k) ==
  IF UpperCaseExpansions[k + 3] = ""
  THEN <<UpperCaseExpansions[k + 1], UpperCaseExpansions[k + 2]>>
  ELSE <<UpperCaseExpansions[k + 1], UpperCaseExpansions[k + 2],
         UpperCaseExpansions[k + 3]>>

\* toLowerCase of a string of one code unit: the code units it gives
toLowerCaseChar(c) ==
  IF c = "\\u0130" THEN <<"i", "\\u0307">>
  ELSE <<Mapped(c, LowerCasePairs, LowerCaseChanged)>>

\* toUpperCase of a string of one code unit: the code units it gives
toUpperCaseChar(c) ==
  IF c \in SpecialUpperCase
  THEN Expansion(IndexOf(c, UpperCaseExpansions, 4))
  ELSE <<Mapped(c, UpperCasePairs, UpperCaseChanged)>>

\* the value of a decimal digit
DigitValue ==
  [c \in {"0","1","2","3","4","5","6","7","8","9"} |->
     CASE c = "0" -> 0 [] c = "1" -> 1 [] c = "2" -> 2 [] c = "3" -> 3
       [] c = "4" -> 4 [] c = "5" -> 5 [] c = "6" -> 6 [] c = "7" -> 7
       [] c = "8" -> 8 [] c = "9" -> 9]

\* WhiteSpace of ECMAScript: TAB, VT, FF, SP, NBSP, the space separators of
\* Unicode, and the byte order mark
WhiteSpace ==
  {"\t", "", "\f", " ", " ", "\\u1680", "\\u2000", "\\u2001", "\\u2002",
    "\\u2003", "\\u2004", "\\u2005", "\\u2006", "\\u2007", "\\u2008",
    "\\u2009", "\\u200a", "\\u202f", "\\u205f", "\\u3000", "\\ufeff"}

\* LineTerminator of ECMAScript: LF, CR, LS, PS
LineTerminators == {"\n", "\r", "\\u2028", "\\u2029"}

\* \s of a regular expression, and the characters trim() removes
IsWhitespace(c) == c \in WhiteSpace \/ c \in LineTerminators

\* the characters that . of a regular expression does not match
IsLineTerminator(c) == c \in LineTerminators

\* \d of a regular expression
DecimalDigits == {"0","1","2","3","4","5","6","7","8","9"}

IsDigit(c) == c \in DecimalDigits

RECURSIVE CasedBefore(_, _)
\* whether the character that ends at position j of s, or the first before
\* it that is not case-ignorable, is cased
CasedBefore(s, j) ==
  IF j < 1 THEN FALSE
  ELSE IF j > 1 /\ (s[j - 1] \o s[j]) \in SupplementaryCaseIgnorable
       THEN CasedBefore(s, j - 2)
  ELSE IF s[j] \in CaseIgnorable THEN CasedBefore(s, j - 1)
  ELSE \/ s[j] \in Cased
       \/ j > 1 /\ (s[j - 1] \o s[j]) \in SupplementaryCased

RECURSIVE CasedAfter(_, _)
\* whether the character that begins at position j of s, or the first
\* after it that is not case-ignorable, is cased
CasedAfter(s, j) ==
  IF j > Len(s) THEN FALSE
  ELSE IF j < Len(s) /\ (s[j] \o s[j + 1]) \in SupplementaryCaseIgnorable
       THEN CasedAfter(s, j + 2)
  ELSE IF s[j] \in CaseIgnorable THEN CasedAfter(s, j + 1)
  ELSE \/ s[j] \in Cased
       \/ j < Len(s) /\ (s[j] \o s[j + 1]) \in SupplementaryCased

\* Final_Sigma of Unicode: the capital sigma at position i of s follows a
\* cased letter and none follows it
IsFinalSigma(s, i) == CasedBefore(s, i - 1) /\ ~CasedAfter(s, i + 1)

\* the lower case of the surrogate pair in the row that begins at k
LowerCaseOfPair(k) ==
  <<SupplementaryLowerCasePairs[k + 1], SupplementaryLowerCasePairs[k + 2]>>

RECURSIVE LowerCaseFrom(_, _)
\* the lower case of s from position i on
LowerCaseFrom(s, i) ==
  IF i > Len(s) THEN <<>>
  ELSE IF i < Len(s) /\ (s[i] \o s[i + 1]) \in SupplementaryLowerCaseChanged
       THEN LowerCaseOfPair(IndexOf(s[i] \o s[i + 1],
                                    SupplementaryLowerCasePairs, 3))
              \o LowerCaseFrom(s, i + 2)
  ELSE IF s[i] = "\\u03a3"
       THEN <<IF IsFinalSigma(s, i) THEN "\\u03c2" ELSE "\\u03c3">>
              \o LowerCaseFrom(s, i + 1)
  ELSE toLowerCaseChar(s[i]) \o LowerCaseFrom(s, i + 1)

\* String.prototype.toLowerCase
toLowerCase(s) == LowerCaseFrom(s, 1)

BasicLatinUpper ==
  {"A","B","C","D","E","F","G","H","I","J","K","L","M","N","O","P","Q",
   "R","S","T","U","V","W","X","Y","Z"}

\* the character that stands for c with the upper case u, which is one
\* character: u, unless it leads from beyond Basic Latin into it
CanonicalOf(c, u) ==
  IF u \in BasicLatinUpper /\ u # c /\ toLowerCaseChar(u) # <<c>> THEN c ELSE u

\* Canonicalize of a regular expression with the i flag and without the u
\* flag: the upper case of the character, unless that is several characters
\* or leads from beyond Basic Latin into it
Canonicalize(c) ==
  IF c \in SpecialUpperCase THEN c ELSE CanonicalOf(c, Mapped(c, UpperCasePairs, UpperCaseChanged))

\* String.prototype.slice(n), n counted from 0
slice(s, n) == SubSeq(s, n + 1, Len(s))

RECURSIVE trimStart(_)
trimStart(s) ==
  IF s # <<>> /\ IsWhitespace(Head(s)) THEN trimStart(Tail(s)) ELSE s

RECURSIVE trimEnd(_)
trimEnd(s) ==
  IF s # <<>> /\ IsWhitespace(s[Len(s)])
  THEN trimEnd(SubSeq(s, 1, Len(s) - 1)) ELSE s

\* String.prototype.trim
trim(s) == trimEnd(trimStart(s))

\* whether sub stands in s at position pos (from 1)
HasAt(s, pos, sub) ==
  /\ pos + Len(sub) - 1 <= Len(s)
  /\ \A i \in 1..Len(sub) : s[pos + i - 1] = sub[i]

\* String.prototype.startsWith
startsWith(s, sub) == HasAt(s, 1, sub)

\* String.prototype.includes
includes(s, sub) == \E pos \in 1..(Len(s) - Len(sub) + 1) : HasAt(s, pos, sub)

\* String.prototype.split(sep) for a one-character separator
RECURSIVE split(_, _)
split(s, sep) ==
  IF \A i \in 1..Len(s) : s[i] # sep THEN <<s>>
  ELSE LET i == CHOOSE k \in 1..Len(s) :
                  s[k] = sep /\ \A j \in 1..(k - 1) : s[j] # sep
       IN <<SubSeq(s, 1, i - 1)>> \o split(SubSeq(s, i + 1, Len(s)), sep)

\* Array.prototype.join(sep)
RECURSIVE join(_, _)
join(parts, sep) ==
  IF parts = <<>> THEN <<>>
  ELSE IF Len(parts) = 1 THEN parts[1]
  ELSE parts[1] \o sep \o join(Tail(parts), sep)

\* Array.prototype.filter(Boolean) on strings: the empty string is falsy
RECURSIVE filterNonEmpty(_)
filterNonEmpty(parts) ==
  IF parts = <<>> THEN <<>>
  ELSE IF Head(parts) = <<>> THEN filterNonEmpty(Tail(parts))
  ELSE <<Head(parts)>> \o filterNonEmpty(Tail(parts))

(***************************************************************************)
(* Numbers.  A Number value of the program is a double.  The fraction      *)
(* num/den stands for a value of fewer than ten digits, 0/0 for NaN, 1/0   *)
(* and -1/0 for the infinities, and a whole number of ten digits or more   *)
(* is written by its sign and the decimal digits of its exact value.       *)
(***************************************************************************)
Number(n, d) == [num |-> n, den |-> d]

NaN == [num |-> 0, den |-> 0]

Infinity(sign) == [num |-> sign, den |-> 0]

Large(sign, digits) == [sign |-> sign, digits |-> digits]

IsLarge(q) == "digits" \in DOMAIN q

\* the bits of the significand of a double, and the number of bits a finite
\* whole double has at most
SignificandBits == 53
MostBits == 1024

\* the digits of a whole number that fit the integers of this language
FewDigits == 9

\* whole numbers are taken apart and put together a chunk of bits at a time
ChunkBits == 15
ChunkBase == 32768

Zeros(n) == [i \in 1..n |-> 0]

\* a number written in digits, without the zeros it begins with
StripZeros(ds) ==
  IF \A i \in 1..Len(ds) : ds[i] = 0 THEN <<0>>
  ELSE SubSeq(ds, CHOOSE i \in 1..Len(ds) :
                    ds[i] # 0 /\ \A j \in 1..(i - 1) : ds[j] = 0, Len(ds))

\* the remainder of the first i digits of a number divided by ChunkBase
RECURSIVE RemainderOf(_, _)
RemainderOf(ds, i) ==
  IF i = 0 THEN 0
  ELSE (10 * RemainderOf(ds, i - 1) + ds[i]) % ChunkBase

\* the digits of a number divided by ChunkBase
QuotientOf(ds) ==
  [i \in 1..Len(ds) |-> (10 * RemainderOf(ds, i - 1) + ds[i]) \div ChunkBase]

RECURSIVE Power(_, _)
Power(base, n) == IF n = 0 THEN 1 ELSE base * Power(base, n - 1)

\* the ChunkBits binary digits of a number below ChunkBase
ChunkOf(v) == [j \in 1..ChunkBits |-> (v \div Power(2, ChunkBits - j)) % 2]

\* the number that binary digits write, ChunkBits of them at most
RECURSIVE ValueOfBits(_)
ValueOfBits(bits) ==
  IF bits = <<>> THEN 0
  ELSE 2 * ValueOfBits(SubSeq(bits, 1, Len(bits) - 1)) + bits[Len(bits)]

\* the binary digits of a number written in decimal digits, a whole number
\* of chunks
RECURSIVE ToChunks(_)
ToChunks(ds) ==
  LET n == StripZeros(ds)
  IN IF n = <<0>> THEN <<>>
     ELSE ToChunks(QuotientOf(n)) \o ChunkOf(RemainderOf(n, Len(n)))

\* binary digits without the zeros they begin with, none for zero
StripZeroBits(bits) ==
  IF \A i \in 1..Len(bits) : bits[i] = 0 THEN <<>> ELSE StripZeros(bits)

\* the binary digits of a number written in decimal digits
ToBits(ds) == StripZeroBits(ToChunks(ds))

\* the decimal digits of a natural number of this language
RECURSIVE NatDigits(_)
NatDigits(n) == IF n < 10 THEN <<n>> ELSE Append(NatDigits(n \div 10), n % 10)

\* the decimal digits of ChunkBase times the first i digits of a number,
\* plus carry
RECURSIVE TimesFrom(_, _, _)
TimesFrom(ds, i, carry) ==
  IF i = 0 THEN NatDigits(carry)
  ELSE Append(TimesFrom(ds, i - 1, (ChunkBase * ds[i] + carry) \div 10),
              (ChunkBase * ds[i] + carry) % 10)

\* the decimal digits of a number written in binary digits
RECURSIVE FromBits(_)
FromBits(bits) ==
  IF Len(bits) <= ChunkBits THEN NatDigits(ValueOfBits(bits))
  ELSE LET ds == FromBits(SubSeq(bits, 1, Len(bits) - ChunkBits))
       IN StripZeros(TimesFrom(ds, Len(ds),
                               ValueOfBits(SubSeq(bits, Len(bits) - ChunkBits + 1,
                                                  Len(bits)))))

\* a number written in digits of the base, plus one
Increment(ds, base) ==
  IF \A i \in 1..Len(ds) : ds[i] = base - 1 THEN <<1>> \o Zeros(Len(ds))
  ELSE LET p == CHOOSE i \in 1..Len(ds) :
                  ds[i] < base - 1 /\ \A j \in (i + 1)..Len(ds) : ds[j] = base - 1
       IN SubSeq(ds, 1, p - 1) \o <<ds[p] + 1>> \o Zeros(Len(ds) - p)

\* the whole number a double can hold that is nearest to the one written in
\* binary digits, the even significand on a tie
RoundToDouble(bits) ==
  IF Len(bits) <= SignificandBits THEN bits
  ELSE LET top == SubSeq(bits, 1, SignificandBits)
           rest == SubSeq(bits, SignificandBits + 1, Len(bits))
           more == \E i \in 2..Len(rest) : rest[i] = 1
           up == rest[1] = 1 /\ (more \/ top[SignificandBits] = 1)
       IN (IF up THEN Increment(top, 2) ELSE top) \o Zeros(Len(rest))

\* the value of a run of decimal digits that fits the integers of this language
RECURSIVE SmallValue(_)
SmallValue(ds) ==
  IF ds = <<>> THEN 0
  ELSE 10 * SmallValue(SubSeq(ds, 1, Len(ds) - 1)) + ds[Len(ds)]

\* the double with the sign and the decimal digits
DoubleOf(sign, digits) ==
  IF Len(digits) <= FewDigits THEN Number(sign * SmallValue(digits), 1)
  ELSE Large(sign, digits)

\* the double with the sign and the binary digits, which the significand holds
RoundedNumber(sign, rounded) ==
  IF Len(rounded) > MostBits THEN Infinity(sign)
  ELSE DoubleOf(sign, FromBits(rounded))

\* the double nearest to the whole number with the sign and the binary digits
WholeNumber(sign, bits) == RoundedNumber(sign, RoundToDouble(bits))

\* the value of a hexadecimal digit
HexValue ==
  [c \in DOMAIN DigitValue \cup {"a", "b", "c", "d", "e", "f", "A", "B", "C", "D", "E", "F"} |->
     CASE c \in DOMAIN DigitValue -> DigitValue[c]
       [] c \in {"a", "A"} -> 10 [] c \in {"b", "B"} -> 11
       [] c \in {"c", "C"} -> 12 [] c \in {"d", "D"} -> 13
       [] c \in {"e", "E"} -> 14 [] c \in {"f", "F"} -> 15]

\* the number of characters from pos on that are digits of the table
RECURSIVE DigitRun(_, _, _)
DigitRun(s, pos, table) ==
  IF pos <= Len(s) /\ s[pos] \in DOMAIN table
  THEN 1 + DigitRun(s, pos + 1, table) ELSE 0

\* the binary digits of a run of hexadecimal digits
RECURSIVE HexToBits(_)
HexToBits(s) ==
  IF s = <<>> THEN <<>>
  ELSE LET v == HexValue[s[Len(s)]]
       IN HexToBits(SubSeq(s, 1, Len(s) - 1))
          \o <<v \div 8, (v \div 4) % 2, (v \div 2) % 2, v % 2>>

\* the binary digits of the first run characters of body, which are digits
BitsOf(body, run, hex) ==
  IF hex THEN StripZeroBits(HexToBits(SubSeq(body, 1, run)))
  ELSE ToBits([i \in 1..run |-> DigitValue[body[i]]])

\* the number that the digits at the start of body write, NaN for no digit
ParseDigits(sign, body, run, hex) ==
  IF run = 0 THEN NaN ELSE WholeNumber(sign, BitsOf(body, run, hex))

\* the number that the characters after the sign write
ParseBody(sign, body, hex) ==
  ParseDigits(sign, body, DigitRun(body, 1, IF hex THEN HexValue ELSE DigitValue),
              hex)

\* whether the characters begin with 0x or 0X
HasHexPrefix(unsigned) ==
  Len(unsigned) >= 2 /\ unsigned[1] = "0" /\ unsigned[2] \in {"x", "X"}

ParseUnsigned(sign, unsigned) ==
  IF HasHexPrefix(unsigned) THEN ParseBody(sign, slice(unsigned, 2), TRUE)
  ELSE ParseBody(sign, unsigned, FALSE)

ParseSigned(S) ==
  IF S # <<>> /\ S[1] = "-" THEN ParseUnsigned(-1, Tail(S))
  ELSE IF S # <<>> /\ S[1] = "+" THEN ParseUnsigned(1, Tail(S))
  ELSE ParseUnsigned(1, S)

\* parseInt(string) with no radix: white space is skipped, a sign is taken,
\* 0x or 0X makes the digits hexadecimal, the digits end at the first
\* character that is none, and no digit at all gives NaN.  The sign of a
\* zero is not kept.
parseInt(string) == ParseSigned(trimStart(string))

(***************************************************************************)
(* Regular expressions.  A pattern is a sequence of nodes:                 *)
(*   Bol, Eol        ^ and $                                               *)
(*   Lit(s)          the characters s, compared ignoring case (every       *)
(*                   pattern of the source carries the i flag or matches   *)
(*                   letters of no case)                                   *)
(*   Ws              \s+                                                   *)
(*   Digits          (\d+), captured                                       *)
(*   Lazy, Greedy    (.+?) and (.+), captured                              *)
(*   Alt(words)      (w1|w2|...), captured                                 *)
(*   Group(words)    (?:w1|w2|...)                                         *)
(*   Opt(nodes)      (?:nodes)?                                            *)
(***************************************************************************)
Bol == [t |-> "bol"]
Eol == [t |-> "eol"]
Lit(s) == [t |-> "lit", s |-> s]
Ws == [t |-> "rep", class |-> "space", greedy |-> TRUE, capture |-> FALSE]
Digits == [t |-> "rep", class |-> "digit", greedy |-> TRUE, capture |-> TRUE]
Lazy == [t |-> "rep", class |-> "any", greedy |-> FALSE, capture |-> TRUE]
Greedy == [t |-> "rep", class |-> "any", greedy |-> TRUE, capture |-> TRUE]
Alt(words) == [t |-> "alt", words |-> words, capture |-> TRUE]
Group(words) == [t |-> "alt", words |-> words, capture |-> FALSE]
Opt(nodes) == [t |-> "opt", nodes |-> nodes]

NoMatch == [ok |-> FALSE]

InClass(c, class) ==
  CASE class = "space" -> IsWhitespace(c)
    [] class = "digit" -> IsDigit(c)
    [] class = "any" -> ~IsLineTerminator(c)

\* the number of consecutive characters of the class from pos on
RECURSIVE RunLength(_, _, _)
RunLength(text, pos, class) ==
  IF pos <= Len(text) /\ InClass(text[pos], class)
  THEN 1 + RunLength(text, pos + 1, class) ELSE 0

HasAtIgnoreCase(text, pos, s) ==
  /\ pos + Len(s) - 1 <= Len(text)
  /\ \A i \in 1..Len(s) : Canonicalize(text[pos + i - 1]) = Canonicalize(s[i])

RECURSIVE MatchAt(_, _, _, _)
RECURSIVE MatchRep(_, _, _, _, _, _, _)
RECURSIVE MatchAlt(_, _, _, _, _, _)

\* the nodes matched from pos on, the captures so far being caps
MatchAt(nodes, text, pos, caps) ==
  IF nodes = <<>> THEN [ok |-> TRUE, end |-> pos, caps |-> caps]
  ELSE LET n == Head(nodes)
           rest == Tail(nodes)
       IN CASE n.t = "bol" ->
                 IF pos = 1 THEN MatchAt(rest, text, pos, caps) ELSE NoMatch
            [] n.t = "eol" ->
                 IF pos = Len(text) + 1 THEN MatchAt(rest, text, pos, caps)
                 ELSE NoMatch
            [] n.t = "lit" ->
                 IF HasAtIgnoreCase(text, pos, n.s)
                 THEN MatchAt(rest, text, pos + Len(n.s), caps) ELSE NoMatch
            [] n.t = "rep" ->
                 LET run == RunLength(text, pos, n.class)
                 IN MatchRep(n, rest, text, pos, caps,
                             IF n.greedy THEN run ELSE 1, run)
            [] n.t = "alt" -> MatchAlt(n, rest, text, pos, caps, 1)
            [] n.t = "opt" ->
                 LET taken == MatchAt(n.nodes \o rest, text, pos, caps)
                 IN IF taken.ok THEN taken ELSE MatchAt(rest, text, pos, caps)

\* a repetition of k characters, then shorter ones (greedy) or longer ones (lazy)
MatchRep(n, rest, text, pos, caps, k, run) ==
  IF k < 1 \/ k > run THEN NoMatch
  ELSE LET r == MatchAt(rest, text, pos + k,
                        IF n.capture
                        THEN Append(caps, SubSeq(text, pos, pos + k - 1))
                        ELSE caps)
       IN IF r.ok THEN r
          ELSE MatchRep(n, rest, text, pos, caps,
                        IF n.greedy THEN k - 1 ELSE k + 1, run)

\* the alternatives from the i-th on, in the order written
MatchAlt(n, rest, text, pos, caps, i) ==
  IF i > Len(n.words) THEN NoMatch
  ELSE LET w == n.words[i]
           r == IF HasAtIgnoreCase(text, pos, w)
                THEN MatchAt(rest, text, pos + Len(w),
                             IF n.capture
                             THEN Append(caps, SubSeq(text, pos, pos + Len(w) - 1))
                             ELSE caps)
                ELSE NoMatch
       IN IF r.ok THEN r ELSE MatchAlt(n, rest, text, pos, caps, i + 1)

\* the leftmost match starting at position from or later
RECURSIVE SearchFrom(_, _, _)
SearchFrom(nodes, text, from) ==
  IF from > Len(text) + 1 THEN NoMatch
  ELSE LET r == MatchAt(nodes, text, from, <<>>)
       IN IF r.ok THEN [ok |-> TRUE, start |-> from, end |-> r.end, caps |-> r.caps]
          ELSE SearchFrom(nodes, text, from + 1)

\* String.prototype.match(pattern), pattern a literal without the g or y
\* flag that the call creates
match(text, nodes) == SearchFrom(nodes, text, 1)

\* of the leftmost match m at position from or later, what a pattern with
\* these flags matches: with the y flag a match at from and nowhere else
Sticky(flags, m, from) ==
  IF "y" \in flags /\ m.ok /\ m.start # from THEN NoMatch ELSE m

\* what RegExpBuiltinExec returns for the match m: the match, and the
\* lastIndex the call leaves R with, which is written for a pattern with
\* the g or y flag only: the end of the match, 0 when there is none
ExecResult(R, m) ==
  [match |-> m,
   lastIndex |-> IF R.flags \cap {"g", "y"} = {} THEN R.lastIndex
                 ELSE IF m.ok THEN m.end - 1 ELSE 0]

\* the search of RegExpBuiltinExec from lastIndex on, which fails beyond the
\* end of S
ExecFrom(R, S, lastIndex) ==
  IF lastIndex > Len(S) THEN ExecResult(R, NoMatch)
  ELSE ExecResult(R, Sticky(R.flags, SearchFrom(R.source, S, lastIndex + 1),
                            lastIndex + 1))

\* RegExpBuiltinExec(R, S) on the pattern object R: the search starts at
\* R.lastIndex when R has the g or y flag and at 0 otherwise
RegExpBuiltinExec(R, S) ==
  ExecFrom(R, S, IF R.flags \cap {"g", "y"} = {} THEN 0 ELSE R.lastIndex)

\* S.match(R) on the pattern object R, R without the g flag:
\* RegExp.prototype[Symbol.match] calls exec once, and the captures follow
\* the match in the array returned
StringMatch(S, R) == RegExpBuiltinExec(R, S)

\* String.prototype.replace(pattern, by), pattern without the g flag
replace(text, nodes, by) ==
  LET m == match(text, nodes)
  IN IF m.ok
     THEN SubSeq(text, 1, m.start - 1) \o by \o SubSeq(text, m.end, Len(text))
     ELSE text

\* String.prototype.replace(pattern, by), pattern with the g flag (the
\* patterns of the source match no empty string)
RECURSIVE ReplaceAllFrom(_, _, _, _)
ReplaceAllFrom(text, nodes, by, from) ==
  LET m == SearchFrom(nodes, text, from)
  IN IF m.ok
     THEN SubSeq(text, from, m.start - 1) \o by
          \o ReplaceAllFrom(text, nodes, by, m.end)
     ELSE SubSeq(text, from, Len(text))

replaceAll(text, nodes, by) == ReplaceAllFrom(text, nodes, by, 1)

(***************************************************************************)
(* The tables of the parser.                                               *)
(***************************************************************************)
\* the categories in the order of Object.entries, each with its verbs
ACTION_VERBS == <<
  [action |-> "add",
   verbs |-> <<<<"a","d","d">>, <<"a","d","d","i","n","g">>, <<"b","u","y">>, <<"g","e","t">>, <<"n","e","e","d">>, <<"p","i","c","k"," ","u","p">>, <<"g","r","a","b">>>>],
  [action |-> "complete",
   verbs |-> <<<<"c","h","e","c","k"," ","o","f","f">>, <<"m","a","r","k">>, <<"c","o","m","p","l","e","t","e">>, <<"d","o","n","e"," ","w","i","t","h">>, <<"g","o","t">>, <<"b","o","u","g","h","t">>>>],
  [action |-> "uncomplete",
   verbs |-> <<<<"u","n","c","h","e","c","k">>, <<"u","n","m","a","r","k">>, <<"u","n","d","o">>>>],
  [action |-> "remove",
   verbs |-> <<<<"r","e","m","o","v","e">>, <<"d","e","l","e","t","e">>, <<"c","l","e","a","r">>, <<"t","a","k","e"," ","o","f","f">>>>] >>

NumberWordsToTwelve ==
  <<<<"o","n","e">>, <<"t","w","o">>, <<"t","h","r","e","e">>, <<"f","o","u","r">>, <<"f","i","v","e">>, <<"s","i","x">>, <<"s","e","v","e","n">>, <<"e","i","g","h","t">>,
    <<"n","i","n","e">>, <<"t","e","n">>, <<"e","l","e","v","e","n">>, <<"t","w","e","l","v","e">>>>

NumberWordsToTen == SubSeq(NumberWordsToTwelve, 1, 10)

FractionWords == <<<<"h","a","l","f">>, <<"q","u","a","r","t","e","r">>>>

UnitTokens ==
  <<<<"p","o","u","n","d">>, <<"p","o","u","n","d","s">>, <<"l","b">>, <<"l","b","s">>, <<"o","u","n","c","e">>, <<"o","u","n","c","e","s">>, <<"o","z">>, <<"c","a","n">>,
    <<"c","a","n","s">>, <<"b","o","x">>, <<"b","o","x","e","s">>, <<"b","a","g">>, <<"b","a","g","s">>, <<"b","o","t","t","l","e">>, <<"b","o","t","t","l","e","s">>,
    <<"g","a","l","l","o","n">>, <<"g","a","l","l","o","n","s">>, <<"q","u","a","r","t">>, <<"q","u","a","r","t","s">>, <<"c","u","p">>, <<"c","u","p","s">>, <<"d","o","z","e","n">>>>

\* QUANTITY_PATTERNS with the rest of the first pattern not captured:
\* /^(\d+)\s+.+$/
QUANTITY_PATTERNS_RestNotCaptured == <<
  <<Bol, Digits, Ws,
    [t |-> "rep", class |-> "any", greedy |-> TRUE, capture |-> FALSE], Eol>>,
  <<Bol, Alt(NumberWordsToTwelve), Ws, Greedy, Eol>>,
  <<Bol, Alt(FractionWords), Ws, Greedy, Eol>>,
  <<Bol, Digits, Ws, Alt(UnitTokens), Ws, Opt(<<Lit(<<"o","f">>), Ws>>), Greedy, Eol>>,
  <<Bol, Alt(NumberWordsToTen), Ws, Alt(UnitTokens), Ws,
    Opt(<<Lit(<<"o","f">>), Ws>>), Greedy, Eol>> >>

\* QUANTITY_FLAGS with the y flag on every pattern
QUANTITY_FLAGS_Sticky == <<{"y"}, {"i", "y"}, {"i", "y"}, {"i", "y"}, {"i", "y"}>>

\* the flags of the patterns of QUANTITY_PATTERNS: the first has none, the
\* others i (the matcher compares letters ignoring case, and the first
\* pattern has no letter)
QUANTITY_FLAGS == <<{}, {"i"}, {"i"}, {"i"}, {"i"}>>

QUANTITY_PATTERNS == <<
  \* /^(\d+)\s+(.+)$/
  <<Bol, Digits, Ws, Greedy, Eol>>,
  \* /^(one|...|twelve)\s+(.+)$/i
  <<Bol, Alt(NumberWordsToTwelve), Ws, Greedy, Eol>>,
  \* /^(half|quarter)\s+(.+)$/i
  <<Bol, Alt(FractionWords), Ws, Greedy, Eol>>,
  \* /^(\d+)\s+(pound|...|dozen)\s+(?:of\s+)?(.+)$/i
  <<Bol, Digits, Ws, Alt(UnitTokens), Ws, Opt(<<Lit(<<"o","f">>), Ws>>), Greedy, Eol>>,
  \* /^(one|...|ten)\s+(pound|...|dozen)\s+(?:of\s+)?(.+)$/i
  <<Bol, Alt(NumberWordsToTen), Ws, Alt(UnitTokens), Ws,
    Opt(<<Lit(<<"o","f">>), Ws>>), Greedy, Eol>> >>

\* the keys of TEXT_TO_NUMBER, and the value of each
TEXT_TO_NUMBER_KEYS == NumberWordsToTwelve \o FractionWords

TEXT_TO_NUMBER(key) ==
  IF key = <<"h","a","l","f">> THEN Number(1, 2)
  ELSE IF key = <<"q","u","a","r","t","e","r">> THEN Number(1, 4)
  ELSE Number(CHOOSE i \in 1..12 : NumberWordsToTwelve[i] = key, 1)

InSeq(x, seq) == \E i \in 1..Len(seq) : seq[i] = x

\* the tables as the module creates them when it is loaded: the verbs, the
\* pattern objects (source, flags and lastIndex 0) and the entries of
\* TEXT_TO_NUMBER
Tables ==
  [ACTION_VERBS |-> ACTION_VERBS,
   QUANTITY_PATTERNS |->
     [i \in 1..Len(QUANTITY_PATTERNS) |->
        [source |-> QUANTITY_PATTERNS[i], flags |-> QUANTITY_FLAGS[i],
         lastIndex |-> 0]],
   TEXT_TO_NUMBER |->
     [i \in 1..Len(TEXT_TO_NUMBER_KEYS) |->
        <<TEXT_TO_NUMBER_KEYS[i], TEXT_TO_NUMBER(TEXT_TO_NUMBER_KEYS[i])>>]]

(***************************************************************************)
(* The functions of the parser.                                            *)
(***************************************************************************)
\* VerbMatches without the startsWith test
VerbMatches_ContainsOnly(text, verb) == includes(text, <<" ">> \o verb \o <<" ">>)

\* the test of detectAction on one verb
VerbMatches(text, verb) ==
  startsWith(text, verb) \/ includes(text, <<" ">> \o verb \o <<" ">>)

\* FirstMatch returning the last category that has a matching verb
FirstMatch_LastCategory(text, a, v) ==
  LET hits == {b \in a..Len(tables.ACTION_VERBS) :
                 \E w \in 1..Len(tables.ACTION_VERBS[b].verbs) :
                   VerbMatches(text, tables.ACTION_VERBS[b].verbs[w])}
  IN IF hits = {} THEN 0 ELSE CHOOSE b \in hits : \A c \in hits : c <= b

\* the loops of detectAction from verb v of category a on: the index of the
\* category of the first verb that matches, 0 when none does
RECURSIVE FirstMatch(_, _, _)
FirstMatch(text, a, v) ==
  IF a > Len(tables.ACTION_VERBS) THEN 0
  ELSE IF v > Len(tables.ACTION_VERBS[a].verbs) THEN FirstMatch(text, a + 1, 1)
  ELSE IF VerbMatches(text, tables.ACTION_VERBS[a].verbs[v]) THEN a
  ELSE FirstMatch(text, a, v + 1)

\* detectAction without the final return 'add'
detectAction_NoDefault(text) ==
  LET a == FirstMatch(text, 1, 1)
  IN IF a = 0 THEN "undefined" ELSE tables.ACTION_VERBS[a].action

detectAction(text) ==
  LET a == FirstMatch(text, 1, 1)
  IN IF a = 0 THEN "add" ELSE tables.ACTION_VERBS[a].action

\* the trailing patterns of extractTargetList, in the order tried
LIST_PATTERNS == <<
  \* /\s+to\s+my\s+(shopping|grocery)\s+list$/i
  <<Ws, Lit(<<"t","o">>), Ws, Lit(<<"m","y">>), Ws, Alt(<<<<"s","h","o","p","p","i","n","g">>, <<"g","r","o","c","e","r","y">>>>), Ws,
    Lit(<<"l","i","s","t">>), Eol>>,
  \* /\s+to\s+the\s+(shopping|grocery)\s+list$/i
  <<Ws, Lit(<<"t","o">>), Ws, Lit(<<"t","h","e">>), Ws, Alt(<<<<"s","h","o","p","p","i","n","g">>, <<"g","r","o","c","e","r","y">>>>), Ws,
    Lit(<<"l","i","s","t">>), Eol>>,
  \* /\s+to\s+my\s+(.+?)\s+list$/i
  <<Ws, Lit(<<"t","o">>), Ws, Lit(<<"m","y">>), Ws, Lazy, Ws, Lit(<<"l","i","s","t">>), Eol>>,
  \* /\s+to\s+(?:the\s+)?(.+?)\s+list$/i
  <<Ws, Lit(<<"t","o">>), Ws, Opt(<<Lit(<<"t","h","e">>), Ws>>), Lazy, Ws, Lit(<<"l","i","s","t">>), Eol>>,
  \* /\s+on\s+(?:my|the)\s+(.+?)\s+list$/i
  <<Ws, Lit(<<"o","n">>), Ws, Group(<<<<"m","y">>, <<"t","h","e">>>>), Ws, Lazy, Ws, Lit(<<"l","i","s","t">>),
    Eol>> >>

\* what a call returns when it throws: a method called on undefined, which
\* is what a capture group that the pattern does not have evaluates to
TypeError == [threw |-> "TypeError"]

Threw(returnValue) == "threw" \in DOMAIN returnValue

\* ListResult with the text returned as it came
ListResult_ClauseKept(text, i, m) ==
  LET listName == toLowerCase(trim(m.caps[1]))
  IN IF Len(m.caps) < 1 THEN TypeError
     ELSE IF listName = <<"s","h","o","p","p","i","n","g">> \/ listName = <<"g","r","o","c","e","r","y">>
     THEN [text |-> text]
     ELSE [text |-> text, targetList |-> listName]

\* ListResult without the mapping of the generic names to the default list
ListResult_GenericNamed(text, i, m) ==
  IF Len(m.caps) < 1 THEN TypeError
  ELSE [text |-> trim(replace(text, LIST_PATTERNS[i], <<>>)),
        targetList |-> toLowerCase(trim(m.caps[1]))]

\* what extractTargetList returns when pattern i matched with match m; the
\* result has no targetList field when the list is the default one
ListResult(text, i, m) ==
  LET listName == toLowerCase(trim(m.caps[1]))
  IN IF Len(m.caps) < 1 THEN TypeError
     ELSE IF listName = <<"s","h","o","p","p","i","n","g">> \/ listName = <<"g","r","o","c","e","r","y">>
     THEN [text |-> trim(replace(text, LIST_PATTERNS[i], <<>>))]
     ELSE [text |-> trim(replace(text, LIST_PATTERNS[i], <<>>)),
           targetList |-> listName]

\* extractTargetList from pattern i on: the first pattern that matches decides
RECURSIVE ExtractFrom(_, _)
ExtractFrom(text, i) ==
  IF i > Len(LIST_PATTERNS) THEN [text |-> text]
  ELSE LET m == match(text, LIST_PATTERNS[i])
       IN IF m.ok THEN ListResult(text, i, m) ELSE ExtractFrom(text, i + 1)

extractTargetList(text) == ExtractFrom(text, 1)

\* ACTION_VERBS[action] of removeActionVerb
VerbsOf(act) ==
  tables.ACTION_VERBS[CHOOSE a \in 1..Len(tables.ACTION_VERBS) :
                        tables.ACTION_VERBS[a].action = act].verbs

\* removeActionVerb: the first verb of the action that is a prefix of the
\* text is cut off
RECURSIVE RemoveFrom(_, _, _)
RemoveFrom(text, verbs, v) ==
  IF v > Len(verbs) THEN text
  ELSE IF startsWith(text, verbs[v]) THEN trim(slice(text, Len(verbs[v])))
  ELSE RemoveFrom(text, verbs, v + 1)

removeActionVerb(text, act) == RemoveFrom(text, VerbsOf(act), 1)

\* splitItems with the pattern written without the g flag
splitItems_FirstAndOnly(text) ==
  LET withCommas == replace(text, <<Ws, Lit(<<"a","n","d">>), Ws>>, <<","," ">>)
      pieces == split(withCommas, ",")
      parts == filterNonEmpty([i \in 1..Len(pieces) |-> trim(pieces[i])])
  IN IF Len(parts) > 0 THEN parts ELSE <<text>>

\* splitItems returning parts also when it is empty
splitItems_NoFallback(text) ==
  LET withCommas == replaceAll(text, <<Ws, Lit(<<"a","n","d">>), Ws>>, <<","," ">>)
      pieces == split(withCommas, ",")
  IN filterNonEmpty([i \in 1..Len(pieces) |-> trim(pieces[i])])

\* splitItems: ' and ' becomes a comma, the pieces between commas are
\* trimmed and the empty ones dropped; the text itself when none is left
splitItems(text) ==
  LET withCommas == replaceAll(text, <<Ws, Lit(<<"a","n","d">>), Ws>>, <<","," ">>)
      pieces == split(withCommas, ",")
      parts == filterNonEmpty([i \in 1..Len(pieces) |-> trim(pieces[i])])
  IN IF Len(parts) > 0 THEN parts ELSE <<text>>

\* capitalize: the first letter of each word, the words being what split(' ')
\* returns
capitalize(text) ==
  LET words == split(text, " ")
  IN join([i \in 1..Len(words) |->
             IF words[i] = <<>> THEN <<>>
             ELSE toUpperCaseChar(words[i][1]) \o slice(words[i], 1)],
          <<" ">>)

\* QuantityOf without the lookup in TEXT_TO_NUMBER
QuantityOf_ParseIntOnly(quantityText) == parseInt(quantityText)

\* the entries of TEXT_TO_NUMBER with this key
EntriesOf(key) ==
  {e \in 1..Len(tables.TEXT_TO_NUMBER) : tables.TEXT_TO_NUMBER[e][1] = key}

\* TEXT_TO_NUMBER[quantityText.toLowerCase()] || parseInt(quantityText):
\* every value of the table is truthy
QuantityOf(quantityText) ==
  IF EntriesOf(toLowerCase(quantityText)) # {}
  THEN tables.TEXT_TO_NUMBER[CHOOSE e \in EntriesOf(toLowerCase(quantityText)) : TRUE][2]
  ELSE parseInt(quantityText)

\* what parseItem returns for a match with these captures
ItemOfMatch(text, caps) ==
  IF Len(caps) < 1 THEN TypeError
  ELSE IF Len(caps) >= 3 /\ caps[3] # <<>>
  THEN [name |-> capitalize(trim(caps[3])),
        quantity |-> QuantityOf(caps[1]),
        unit |-> caps[2],
        originalText |-> text]
  ELSE IF Len(caps) < 2 THEN TypeError
  ELSE [name |-> capitalize(trim(caps[2])),
        quantity |-> QuantityOf(caps[1]),
        originalText |-> text]

\* the pattern objects after cleaned.match(patterns[i]) has left the i-th
\* with this lastIndex
AfterMatch(patterns, i, lastIndex) ==
  [patterns EXCEPT ![i] = [@ EXCEPT !.lastIndex = lastIndex]]

RECURSIVE ParseFrom(_, _, _, _)

\* one turn of the loop of parseItem, r being what cleaned.match(pattern)
\* gave for the i-th pattern object
ParseTurn(patterns, text, cleaned, i, r) ==
  IF r.match.ok
  THEN [item |-> ItemOfMatch(text, r.match.caps),
        patterns |-> AfterMatch(patterns, i, r.lastIndex)]
  ELSE ParseFrom(AfterMatch(patterns, i, r.lastIndex), text, cleaned, i + 1)

\* the loop of parseItem from the i-th pattern object on: the first pattern
\* that matches decides.  The item returned, and the pattern objects as the
\* calls of match leave them
ParseFrom(patterns, text, cleaned, i) ==
  IF i > Len(patterns)
  THEN [item |-> [name |-> capitalize(cleaned), originalText |-> text],
        patterns |-> patterns]
  ELSE ParseTurn(patterns, text, cleaned, i, StringMatch(cleaned, patterns[i]))

\* what parseItem returned, without the quantity of an item that has a unit
WithoutQuantity(r) ==
  IF "unit" \in DOMAIN r.item
  THEN [item |-> [f \in DOMAIN r.item \ {"quantity"} |-> r.item[f]],
        patterns |-> r.patterns]
  ELSE r

\* parseItem leaving the quantity out of an item that has a unit
parseItem_UnitAlone(patterns, text) ==
  WithoutQuantity(ParseFrom(patterns, text, trim(text), 1))

\* parseItem(text), the pattern objects of QUANTITY_PATTERNS being patterns
\* when it is called: the item returned, and the pattern objects after
parseItem(patterns, text) == ParseFrom(patterns, text, trim(text), 1)

RECURSIVE MapParseItem(_, _, _)

\* the item put before the items that follow it
MapJoin(first, rest) ==
  [items |-> <<first>> \o rest.items, patterns |-> rest.patterns]

\* one turn of itemTexts.map(parseItem), parsed being what parseItem gave
\* for the i-th text: a call that throws ends the map
MapTurn(texts, i, parsed) ==
  IF Threw(parsed.item) THEN [items |-> <<parsed.item>>, patterns |-> parsed.patterns]
  ELSE MapJoin(parsed.item, MapParseItem(parsed.patterns, texts, i + 1))

\* itemTexts.map(parseItem) from the i-th text on: the items, up to the one
\* whose call threw, and the pattern objects after
MapParseItem(patterns, texts, i) ==
  IF i > Len(texts) THEN [items |-> <<>>, patterns |-> patterns]
  ELSE MapTurn(texts, i, parseItem(patterns, texts[i]))

(***************************************************************************)
(* The transcripts and item phrases the calls are made on.                 *)
(***************************************************************************)
\* the most item names joined in one transcript
MaxItems == 3

\* the most digits of a spoken number
MaxDigits == 2

Range(seq) == {seq[i] : i \in 1..Len(seq)}

AllVerbs == UNION {Range(ACTION_VERBS[a].verbs) : a \in 1..Len(ACTION_VERBS)}

CategoryOf(verb) ==
  ACTION_VERBS[CHOOSE a \in 1..Len(ACTION_VERBS) :
                 InSeq(verb, ACTION_VERBS[a].verbs)].action

\* item names with no verb, no 'and', no comma, no number and no list clause,
\* each with the name as it is to be written on the list
SpokenNames ==
  {<<<<"m","i","l","k">>, <<"M","i","l","k">>>>, <<<<"e","g","g","s">>, <<"E","g","g","s">>>>, <<<<"c","a","n","d","y">>, <<"C","a","n","d","y">>>>,
   <<<<"p","a","p","e","r"," ","t","o","w","e","l","s">>, <<"P","a","p","e","r"," ","T","o","w","e","l","s">>>>, <<<<"c","h","i","c","k","e","n">>, <<"C","h","i","c","k","e","n">>>>,
   <<<<"s","o","u","p">>, <<"S","o","u","p">>>>, <<<<"a","p","p","l","e","s">>, <<"A","p","p","l","e","s">>>>}

PlainNames == {<<"m","i","l","k">>, <<"e","g","g","s">>, <<"c","a","n","d","y">>, <<"p","a","p","e","r"," ","t","o","w","e","l","s">>}

\* the names spoken after a unit
MeasuredNames == {<<"c","h","i","c","k","e","n">>, <<"s","o","u","p">>}

Written(n) == (CHOOSE p \in SpokenNames : p[1] = n)[2]

OneWordNames == {<<"m","i","l","k">>, <<"e","g","g","s">>, <<"c","a","n","d","y">>}

Separators == {<<","," ">>, <<" ","a","n","d"," ">>, <<","," ","a","n","d"," ">>}

\* k one-word names joined by separators
RECURSIVE ItemLists(_)
ItemLists(k) ==
  IF k = 1 THEN OneWordNames
  ELSE {l \o s \o n : l \in ItemLists(k - 1), s \in Separators, n \in OneWordNames}

ListInputs ==
  UNION {ItemLists(k) : k \in 1..MaxItems}
  \cup {<<"p","a","p","e","r"," ","t","o","w","e","l","s">> \o s \o n : s \in Separators, n \in PlainNames}
  \cup {n \o s \o <<"p","a","p","e","r"," ","t","o","w","e","l","s">> : s \in Separators, n \in PlainNames}
  \cup {n \o <<",">> \o m : n \in PlainNames, m \in PlainNames}

SomeDigits == {"0", "1", "3", "7"}

RECURSIVE DigitStrings(_)
DigitStrings(k) ==
  IF k = 0 THEN {<<>>}
  ELSE {<<d>> \o s : d \in SomeDigits, s \in DigitStrings(k - 1)}

Numerals == UNION {DigitStrings(k) : k \in 1..MaxDigits}

\* numerals around the largest values that the integers of this language
\* and the whole numbers of a double hold
LargeNumerals ==
  {<<"2", "1", "4", "7", "4", "8", "3", "6", "4", "8">>,
   <<"9", "0", "0", "7", "1", "9", "9", "2", "5", "4", "7", "4", "0", "9", "9", "2">>,
   <<"9", "0", "0", "7", "1", "9", "9", "2", "5", "4", "7", "4", "0", "9", "9", "3">>}

QuantityTokens == Numerals \cup LargeNumerals \cup Range(TEXT_TO_NUMBER_KEYS)

\* the whitespace between a quantity and what follows it
Gaps == {<<" ">>, <<" "," ">>, <<"\t">>, <<" ">>, <<"\r", "\n">>}

\* quantity, unit and name in the forms the quantity patterns are written for
QuantityPhrases ==
  {q \o g \o n : q \in QuantityTokens, g \in Gaps, n \in PlainNames}
  \cup {q \o <<" ">> \o u \o <<" ">> \o n :
          q \in QuantityTokens, u \in Range(UnitTokens), n \in MeasuredNames}
  \cup {q \o <<" ">> \o u \o <<" ","o","f"," ">> \o n :
          q \in QuantityTokens, u \in Range(UnitTokens), n \in MeasuredNames}

\* phrases with no leading quantity token, each with the name expected
UnquantifiedPhrases ==
  {<<<<"3">>, <<"3">>>>, <<<<"1","2","e","g","g","s">>, <<"1","2","e","g","g","s">>>>, <<<<"t","w","o">>, <<"T","w","o">>>>,
   <<<<"h","a","l","f">>, <<"H","a","l","f">>>>, <<<<"t","w","o","f","o","l","d"," ","c","r","e","a","m">>, <<"T","w","o","f","o","l","d"," ","C","r","e","a","m">>>>,
   <<<<"t","h","i","r","t","e","e","n"," ","e","g","g","s">>, <<"T","h","i","r","t","e","e","n"," ","E","g","g","s">>>>, <<<<"a"," ","d","o","z","e","n"," ","e","g","g","s">>, <<"A"," ","D","o","z","e","n"," ","E","g","g","s">>>>,
   <<<<"p","o","u","n","d","s"," ","o","f"," ","r","i","c","e">>, <<"P","o","u","n","d","s"," ","O","f"," ","R","i","c","e">>>>, <<<<"p","a","p","e","r"," "," ","t","o","w","e","l","s">>, <<"P","a","p","e","r"," "," ","T","o","w","e","l","s">>>>,
   <<<<"h","a","l","f","w","a","y"," ","h","o","u","s","e">>, <<"H","a","l","f","w","a","y"," ","H","o","u","s","e">>>>, <<<<"3","a","p","p","l","e","s"," ","2">>, <<"3","a","p","p","l","e","s"," ","2">>>>}

OddPhrases ==
  {<<>>, <<"3"," "," ","a","p","p","l","e","s">>, <<"3","\t","a","p","p","l","e","s">>, <<"3"," ","o","f"," ","t","h","e","m">>, <<"2"," ","l","b">>, <<"o","n","e"," ","c","a","n"," ","o","f">>,
   <<"3"," ","p","a","p","e","r","\t","t","o","w","e","l","s">>, <<"t","w","o"," "," ","p","o","u","n","d","s"," "," ","o","f"," "," ","c","h","i","c","k","e","n">>, <<"h","a","l","f"," ","a"," ","p","o","u","n","d"," ","o","f"," ","b","u","t","t","e","r">>,
   <<"3"," ","c","a","n","s","\n","s","o","u","p">>, <<"t","w","o"," ","p","o","u","n","d","s","\n","o","f"," ","c","h","i","c","k","e","n">>, <<"3"," ","c","a","n","s"," ","o","f","\n","s","o","u","p">>,
   <<"3"," ","p","a","p","e","r","\n","t","o","w","e","l","s">>, <<"t","w","o"," ","m","i","l","k","\n","s","h","a","k","e">>, <<"h","a","l","f"," ","p","a","p","e","r","\n","t","o","w","e","l","s">>,
   <<"3","\n","a","p","p","l","e","s">>, <<"0"," ","l","b","\n","r","i","c","e">>, <<"m","i","l","k","\n","s","h","a","k","e">>,
   <<"3", " ", "c", "a", "n", "s", " ", "o", "f", " ", "s", "o", "u", "p">>,
   <<"3", " ", "c", "a", "n", "s", "\r", "s", "o", "u", "p">>,
   <<"é", "c", "l", "a", "i", "r">>,
   <<"ß", "r", "o", "t">>,
   <<"3", " ", "é", "c", "l", "a", "i", "r", "s">>,
   <<" ", "\r", "\n", " ", "m", "i", "l", "k">>,
   <<"T", "W", "O", " ", "É", "c", "l", "a", "i", "r", "s">>,
   <<"3", " ", "c", "a", "n", "s", "\\u2029", "o", "f", " ", "s", "o", "u", "p">>,
   <<"\\u0131", "r", "m", "i", "k">>,
   <<"\\u0101", "b", "c">>,
   <<"\\u0149">>,
   <<"\\u03bf", "\\u03b4", "\\u03bf", "\\u03c2">>,
   <<"\\u01c6">>,
   <<"\\uff41">>,
   <<"\\u0436", "\\u0443", "\\u043a">>,
   <<"2", " ", "\\ud801", "\\udc28">>,
   <<"\\u1f80", " ", "l", "a">>,
   <<"h", "a", "l", "f", "\\u3000", "\\ufb01", "g">>,
   <<"2", "1", "4", "7", "4", "8", "3", "6", "4", "8", " ", "e", "g", "g", "s">>,
   <<"9", "0", "0", "7", "1", "9", "9", "2", "5", "4", "7", "4", "0", "9", "9", "3", " ", "e", "g", "g", "s">>,
   <<"9", "0", "0", "7", "1", "9", "9", "2", "5", "4", "7", "4", "0", "9", "9", "3", " ", "c", "a", "n", "s", " ", "o", "f", " ", "s", "o", "u", "p">>,
   <<"1", "2", "3", "4", "5", "6", "7", "8", "9", "0", "1", "2", "3", "4", "5", "6", "7", "8", "9", "0", "1", " ", "e", "g", "g", "s">>,
   <<"1", "0", "0", "0", "0", "0", "0", "0", "0", "0", "0", "0", "0", "0", "0", "0", "0", "0", "0", "0", "0", "0", " ", "e", "g", "g", "s">>,
   <<"0", "0", "0", "0", "0", "0", "0", "0", "0", "0", "0", "1", "2", " ", "e", "g", "g", "s">>,
   <<"1", "2", "3", "4", "5", "6", "7", "8", "9", "0", "1", "2", "3", "4", "5", "6", "7", "8", "9", "0", "1", "2", "3", " ", "l", "b", " ", "r", "i", "c", "e">>}

Phrases ==
  PlainNames \cup QuantityPhrases \cup OddPhrases
  \cup {p[1] : p \in UnquantifiedPhrases}

\* the trailing list clauses, with and without a list name
ListNames == {<<"s","h","o","p","p","i","n","g">>, <<"g","r","o","c","e","r","y">>, <<"c","o","s","t","c","o">>, <<"w","h","o","l","e"," ","f","o","o","d","s">>}

ListClauses ==
  {p \o n \o <<" ","l","i","s","t">> :
     p \in {<<" ","t","o"," ","m","y"," ">>, <<" ","t","o"," ","t","h","e"," ">>, <<" ","t","o"," ">>, <<" ","o","n"," ","m","y"," ">>, <<" ","o","n"," ","t","h","e"," ">>, <<" ","o","n"," ">>},
     n \in ListNames}
  \cup {<<" ","t","o"," ","m","y"," ","l","i","s","t">>, <<" ","t","o"," ","t","h","e"," ","l","i","s","t">>, <<" ","t","o"," ","l","i","s","t">>, <<" ","o","n"," ","m","y"," ","l","i","s","t">>,
        <<" ","t","o"," ","m","y"," "," ","l","i","s","t">>, <<" ","t","o"," ","m","y"," ","c","o","s","t","c","o"," ","l","i","s","t","s">>, <<" ","t","o"," ","c","o","s","t","c","o"," ","l","i","s","t"," ","p","l","e","a","s","e">>,
        <<" ","t","o"," ","g","o"," ","t","o"," ","c","o","s","t","c","o"," ","l","i","s","t">>, <<" ","t","o"," ","m","y"," ","s","h","o","p","p","i","n","g"," ","t","o"," ","c","o","s","t","c","o"," ","l","i","s","t">>,
        <<" "," ","T","O"," "," "," ","M","y"," "," ","C","o","s","t","c","o"," "," "," ","L","I","S","T"," ">>, <<" ","f","o","r"," ","t","h","e"," ","c","o","s","t","c","o"," ","l","i","s","t">>}

VerbInputs ==
  AllVerbs
  \cup {v \o <<" ">> \o n : v \in AllVerbs, n \in PlainNames}
  \cup {v \o <<" ","m","i","l","k"," ","a","n","d"," ">> \o w \o <<" ","e","g","g","s">> : v \in AllVerbs, w \in AllVerbs}

\* what is spoken before a list clause, each with the names of its items
Heads ==
  {<<<<"a","d","d"," ","m","i","l","k">>, <<<<"M","i","l","k">>>> >>, <<<<"m","i","l","k"," ","a","n","d"," ","e","g","g","s">>, <<<<"M","i","l","k">>, <<"E","g","g","s">>>> >>,
   <<<<"r","e","m","o","v","e"," ","3"," ","a","p","p","l","e","s">>, <<<<"A","p","p","l","e","s">>>> >>, <<<<"c","a","n","d","y">>, <<<<"C","a","n","d","y">>>> >>}

ClauseInputs == {h[1] \o c : h \in Heads, c \in ListClauses}

QuantityInputs ==
  {v \o p : v \in {<<>>, <<"a","d","d"," ">>, <<"c","h","e","c","k"," ","o","f","f"," ">>},
            p \in {<<"3"," ","a","p","p","l","e","s">>, <<"t","w","o"," ","p","o","u","n","d","s"," ","o","f"," ","c","h","i","c","k","e","n">>, <<"3"," ","c","a","n","s"," ","o","f"," ","s","o","u","p">>,
                   <<"h","a","l","f"," ","a"," ","p","o","u","n","d"," ","o","f"," ","b","u","t","t","e","r">>, <<"1","2"," ","e","g","g","s"," ","a","n","d"," ","m","i","l","k">>,
                   <<"q","u","a","r","t","e","r"," ","c","u","p"," ","s","u","g","a","r",","," ","t","w","o"," ","a","p","p","l","e","s">>, <<"0"," ","e","g","g","s">>}}

OddInputs ==
  {<<>>, <<" ">>, <<" "," ">>, <<"\t">>, <<"?">>, <<"!","?",".">>, <<",">>, <<","," ",",">>, <<" ",","," ","a","n","d"," ",","," ">>, <<"a","n","d">>,
   <<" ","a","n","d"," ">>, <<"A","d","d"," ","M","i","l","k">>, <<"A","D","D"," ","M","I","L","K"," "," ">>, <<" "," ","a","d","d"," ","m","i","l","k">>, <<"n","e","e","d","l","e","s">>,
   <<"a","d","d","r","e","s","s"," ","l","a","b","e","l","s">>, <<"m","a","r","k","e","r"," ","p","e","n","s">>, <<"m","i","l","k"," ","a","n","d"," ","a","n","d"," ","e","g","g","s">>, <<"t","o"," ","m","y"," ","c","o","s","t","c","o"," ","l","i","s","t">>,
   <<"i"," ","n","e","e","d"," ","m","i","l","k">>, <<"p","l","e","a","s","e"," ","r","e","m","o","v","e"," ","t","h","e"," ","m","i","l","k">>, <<"s","a","n","d","w","i","c","h"," ","a","n","d"," ","c","a","n","d","y">>,
   <<"a","d","d"," ","m","i","l","k",",","e","g","g","s">>, <<"a","d","d">>, <<"a","d","d"," ","t","o"," ","c","o","s","t","c","o"," ","l","i","s","t">>, <<"l","i","s","t">>, <<"a","d","d"," ","a","n","d">>,
   <<"p","i","c","k"," ","u","p">>, <<"p","i","c","k","u","p"," ","m","i","l","k">>, <<"C","h","e","c","k"," ","O","f","f"," ","C","a","n","d","y">>, <<"a","d","d"," ","m","i","l","k","\t","a","n","d","\t","e","g","g","s">>,
   <<"a","d","d"," ","l","i","s","t"," ","t","o"," ","m","y"," ","s","h","o","p","p","i","n","g"," ","l","i","s","t">>, <<"t","o"," ","m","y"," ","s","h","o","p","p","i","n","g"," ","l","i","s","t">>,
   <<"t","o"," ","t","h","e"," ","g","r","o","c","e","r","y"," ","l","i","s","t">>, <<"a","d","d"," ","m","i","l","k"," ","i","n","t","o"," ","m","y"," ","s","h","o","p","p","i","n","g"," ","l","i","s","t">>,
   <<"a","d","d"," ","m","i","l","k"," ","t","o"," "," ","M","Y"," ","\t"," ","s","h","o","p","p","i","n","g"," "," "," ","l","i","s","t">>, <<"a","d","d"," ","3"," ","c","a","n","s","\n","s","o","u","p">>,
   <<"r","e","m","o","v","e"," ","t","w","o"," ","p","o","u","n","d","s","\n","o","f"," ","c","h","i","c","k","e","n"," ","a","n","d"," ","3"," ","c","a","n","s"," ","o","f"," ","s","o","u","p">>, <<"m","i","l","k","\n","a","n","d","\n","e","g","g","s">>,
   <<"a","d","d"," ","3"," ","p","a","p","e","r","\n","t","o","w","e","l","s">>, <<"a","d","d"," ","m","i","l","k"," ","t","o"," ","m","y","\n","c","o","s","t","c","o"," ","l","i","s","t">>,
   <<"a","d","d"," ","m","i","l","k","\n","t","o"," ","m","y"," ","c","o","s","t","c","o"," ","l","i","s","t">>, <<"a","d","d","\n","m","i","l","k">>, <<"0"," ","l","b","\n","r","i","c","e">>,
   <<" ", "\r", "\n", " ", "a", "d", "d", " ", "m", "i", "l", "k">>,
   <<"a", "d", "d", " ", "3", " ", "c", "a", "n", "s", " ", "o", "f", " ", "s", "o", "u", "p">>,
   <<"A", "d", "d", " ", "É", "c", "l", "a", "i", "r">>,
   <<"a", "d", "d", " ", "s", "t", "r", "a", "ß", "e", " ", "a", "n", "d", " ", "ß", "r", "o", "t">>,
   <<"A", "D", "D", " ", "\\u0130", "R", "M", "I", "K">>,
   <<"a", "d", "d", " ", "3", " ", "c", "a", "n", "s", "\r", "s", "o", "u", "p">>,
   <<"a", "d", "d", " ", "m", "i", "l", "k", "\r", "a", "n", "d", "\r", "e", "g", "g", "s">>,
   <<"\\ufeff", "a", "d", "d", " ", "m", "i", "l", "k", " ">>,
   <<"A", "D", "D", " ", "\\u0100", "B", "C">>,
   <<"A", "D", "D", " ", "\\u039f", "\\u0394", "\\u039f", "\\u03a3">>,
   <<"A", "D", "D", " ", "\\u039f", "\\u0394", "\\u039f", "\\u03a3", " ", "A", "N", "D", " ", "\\u03a3">>,
   <<"a", "d", "d", " ", "\\ud801", "\\udc00">>,
   <<"a", "d", "d", " ", "\\u0149", " ", "a", "n", "d", " ", "\\u01c6">>,
   <<"A", "D", "D", " ", "\\u0416", "\\u0423", "\\u041a", " ", "T", "O", " ", "M", "Y", " ", "\\u03a3", "\\u0391", "\\u03a3", " ", "L", "I", "S", "T">>,
   <<"a", "d", "d", " ", "\\uff21">>,
   <<"A", "D", "D", " ", "Á", "\\u03a3", "­", "\\u0300", "B", " ", "\\u03a3">>,
   <<"a", "d", "d", " ", "m", "i", "l", "k", "", "t", "o", "\f", "m", "y", " ", "c", "o", "s", "t", "c", "o", " ", "l", "i", "s", "t">>,
   <<"a", "d", "d", " ", "m", "i", "l", "k", " ", "t", "o", " ", "m", "y", " ", "c", "a", "f", "É", " ", "l", "i", "s", "t">>,
   <<"É", "c", "l", "a", "i", "r", " ", "a", "n", "d", " ", "é", "c", "l", "a", "i", "r">>,
   <<"a", "d", "d", "\\u2003", "m", "i", "l", "k">>,
   <<"a", "d", "d", " ", "3", " ", "c", "a", "n", "s", "\\u2028", "o", "f", " ", "s", "o", "u", "p">>,
   <<"a", "d", "d", " ", "2", "1", "4", "7", "4", "8", "3", "6", "4", "8", " ", "e", "g", "g", "s">>,
   <<"a", "d", "d", " ", "9", "0", "0", "7", "1", "9", "9", "2", "5", "4", "7", "4", "0", "9", "9", "3", " ", "c", "a", "n", "s", " ", "o", "f", " ", "s", "o", "u", "p">>,
   <<"a", "d", "d", " ", "1", "0", "0", "0", "0", "0", "0", "0", "0", "0", "0", "0", "0", "0", "0", "0", "0", "0", "0", "0", "0", "0", " ", "e", "g", "g", "s">>}

Transcripts ==
  ListInputs \cup {<<"a","d","d"," ">> \o l : l \in ListInputs} \cup VerbInputs
  \cup ClauseInputs \cup QuantityInputs \cup OddInputs

(***************************************************************************)
(* A call of parseVoiceCommand, one action per statement.                  *)
(***************************************************************************)
None == <<>>

\* no request to the route is under way
NoRequest ==
  /\ request = None
  /\ user = None
  /\ storeError = FALSE
  /\ groceryLists = {}
  /\ listItems = {}
  /\ itemsBefore = {}
  /\ targetListId = None
  /\ targetListName = None
  /\ index = 0
  /\ matchingItems = None
  /\ listData = None
  /\ others = 0
  /\ count = 0
  /\ touched = {}
  /\ result = None
  /\ response = None

\* VoiceInput as useState and useRef create it, with the recognition of
\* the effect
NoVoice ==
  /\ state = "idle"
  /\ heard = ""
  /\ feedback = ""
  /\ recognition = [phase |-> "inactive", stopping |-> FALSE]
  /\ timeoutRef = "null"
  /\ fetches = {}
  /\ resets = {}
  /\ session = 0
  /\ shown = 0

Init ==
  /\ transcript \in Transcripts
  /\ normalized = None
  /\ action = None
  /\ extracted = None
  /\ withoutAction = None
  /\ itemTexts = None
  /\ command = None
  /\ phrase = None
  /\ item = None
  /\ summary = None
  /\ tables = Tables
  /\ calls = 0
  /\ returned = None
  /\ NoRequest
  /\ NoVoice
  /\ pc = "normalize"

\* const normalized = transcript.toLowerCase().trim()
Normalize ==
  /\ pc = "normalize"
  /\ normalized' = trim(toLowerCase(transcript))
  /\ pc' = "detectAction"
  /\ UNCHANGED <<transcript, action, extracted, withoutAction, itemTexts,
                 command, phrase, item,
                 summary, callVars, routeVars, voiceVars>>

\* const action = detectAction(normalized)
DetectAction ==
  /\ pc = "detectAction"
  /\ action' = detectAction(normalized)
  /\ pc' = "extractTargetList"
  /\ UNCHANGED <<transcript, normalized, extracted, withoutAction, itemTexts,
                 command, phrase, item,
                 summary, callVars, routeVars, voiceVars>>

\* const { text: withoutList, targetList } = extractTargetList(normalized)
ExtractTargetList ==
  /\ pc = "extractTargetList"
  /\ extracted' = extractTargetList(normalized)
  /\ pc' = IF Threw(extracted') THEN "threw" ELSE "removeActionVerb"
  /\ UNCHANGED <<transcript, normalized, action, withoutAction, itemTexts,
                 command, phrase, item,
                 summary, callVars, routeVars, voiceVars>>

\* const withoutAction = removeActionVerb(withoutList, action)
RemoveActionVerb ==
  /\ pc = "removeActionVerb"
  /\ withoutAction' = removeActionVerb(extracted.text, action)
  /\ pc' = "splitItems"
  /\ UNCHANGED <<transcript, normalized, action, extracted, itemTexts,
                 command, phrase, item,
                 summary, callVars, routeVars, voiceVars>>

\* const itemTexts = splitItems(withoutAction)
SplitItems ==
  /\ pc = "splitItems"
  /\ itemTexts' = splitItems(withoutAction)
  /\ pc' = "parseItems"
  /\ UNCHANGED <<transcript, normalized, action, extracted, withoutAction,
                 command, phrase, item,
                 summary, callVars, routeVars, voiceVars>>

\* the ParsedCommand returned; it has no targetList field when targetList is
\* undefined
ParsedCommand(act, items, ext, raw) ==
  IF "targetList" \in DOMAIN ext
  THEN [action |-> act, items |-> items, targetList |-> ext.targetList,
        raw |-> raw]
  ELSE [action |-> act, items |-> items, raw |-> raw]

\* const items = itemTexts.map(parseItem); return { action, items, targetList, raw }
ParseItems ==
  /\ pc = "parseItems"
  /\ \E mapped \in {MapParseItem(tables.QUANTITY_PATTERNS, itemTexts, 1)} :
       /\ tables' = [tables EXCEPT !.QUANTITY_PATTERNS = mapped.patterns]
       /\ IF \E i \in 1..Len(mapped.items) : Threw(mapped.items[i])
          THEN /\ pc' = "threw"
               /\ command' = None
          ELSE /\ pc' = "done"
               /\ command' = ParsedCommand(action, mapped.items, extracted,
                                           transcript)
  /\ UNCHANGED <<transcript, normalized, action, extracted, withoutAction,
                 itemTexts, phrase, item,
                 summary, calls, returned, routeVars, voiceVars>>

\* the digits of a natural number, as Number.prototype.toString writes them
RECURSIVE NatToString(_)
NatToString(n) ==
  LET d == CHOOSE c \in DOMAIN DigitValue : DigitValue[c] = n % 10
  IN IF n < 10 THEN <<d>> ELSE Append(NatToString(n \div 10), d)

DigitChars(ds) ==
  [i \in 1..Len(ds) |-> CHOOSE c \in DOMAIN DigitValue : DigitValue[c] = ds[i]]

\* whether the digits a stand for less than the digits b, of the same length
Less(a, b) ==
  \E i \in 1..Len(a) : a[i] < b[i] /\ \A j \in 1..(i - 1) : a[j] = b[j]

\* whether the double nearest to the number c is the one with these digits
RoundTrips(c, digits) == FromBits(RoundToDouble(ToBits(c))) = digits

\* the numbers next to the one with these digits that end in zeros after k
\* digits, below and above
Below(digits, k) == SubSeq(digits, 1, k) \o Zeros(Len(digits) - k)
Above(digits, k) ==
  Increment(SubSeq(digits, 1, k), 10) \o Zeros(Len(digits) - k)

\* whether k significant digits can write the double with these digits
Writes(digits, k) ==
  \/ k >= Len(digits)
  \/ RoundTrips(Below(digits, k), digits)
  \/ RoundTrips(Above(digits, k), digits)

\* the fewest significant digits that can write the double with these digits
FewestDigits(digits) ==
  CHOOSE i \in 1..Len(digits) :
    Writes(digits, i) /\ \A j \in 1..(i - 1) : ~Writes(digits, j)

\* of the numbers lo and hi of k significant digits, the one that is written
\* for the double with these digits: the one whose nearest double it is, of
\* two such the nearer one, and the even one on a tie
Nearer(digits, k, lo, hi, tail, half) ==
  IF k >= Len(digits) THEN digits
  ELSE IF ~RoundTrips(lo, digits) THEN hi
  ELSE IF ~RoundTrips(hi, digits) THEN lo
  ELSE IF Less(tail, half) \/ (tail = half /\ digits[k] % 2 = 0) THEN lo
  ELSE hi

ShortestOf(digits, k) ==
  Nearer(digits, k, Below(digits, k), Above(digits, k),
         SubSeq(digits, k + 1, Len(digits)), <<5>> \o Zeros(Len(digits) - k - 1))

\* the number of the fewest significant digits whose nearest double is the
\* one with these digits
Shortest(digits) == ShortestOf(digits, FewestDigits(digits))

\* the digits s of a number with k significant digits as Number::toString
\* writes them: all of them up to 21 digits, the exponent form beyond
WriteDigits(s, k) ==
  IF Len(s) <= 21 THEN DigitChars(s)
  ELSE DigitChars(<<s[1]>>)
       \o (IF k > 1 THEN <<".">> \o DigitChars(SubSeq(s, 2, k)) ELSE <<>>)
       \o <<"e", "+">> \o NatToString(Len(s) - 1)

\* the position of the last digit that is not 0
LastDigit(s) ==
  CHOOSE i \in 1..Len(s) : s[i] # 0 /\ \A j \in (i + 1)..Len(s) : s[j] = 0

ShortestToString(s) == WriteDigits(s, LastDigit(s))

\* Number::toString of a whole number of ten digits or more
LargeToString(digits) == ShortestToString(Shortest(digits))

\* the two digits after the point of a fraction with more than one
Hundredths(h) == IF h < 10 THEN <<"0">> \o NatToString(h) ELSE NatToString(h)

\* Number::toString of a fraction that is not negative: a whole number in
\* decimal digits, 0.5, 0.25
FractionToString(num, den) ==
  IF num % den = 0 THEN NatToString(num \div den)
  ELSE NatToString(num \div den) \o <<".">>
       \o (IF (num * 10) % den = 0
           THEN NatToString(((num * 10) \div den) % 10)
           ELSE Hundredths(((num * 100) \div den) % 100))

\* `${quantity}`
NumberToString(q) ==
  IF IsLarge(q)
  THEN (IF q.sign < 0 THEN <<"-">> ELSE <<>>) \o LargeToString(q.digits)
  ELSE IF q.den = 0
  THEN (IF q.num = 0 THEN <<"N","a","N">>
        ELSE (IF q.num < 0 THEN <<"-">> ELSE <<>>)
             \o <<"I","n","f","i","n","i","t","y">>)
  ELSE IF q.num < 0 THEN <<"-">> \o FractionToString(0 - q.num, q.den)
  ELSE FractionToString(q.num, q.den)

\* whether a number is truthy: neither 0 nor NaN
IsTruthyNumber(q) == IsLarge(q) \/ q.num # 0

\* quantity > 1
IsGreaterThanOne(q) == IF IsLarge(q) THEN q.sign > 0 ELSE q.num > q.den

\* the description of one item in the summary
ItemDescription(it) ==
  IF "quantity" \in DOMAIN it /\ IsTruthyNumber(it.quantity)
     /\ "unit" \in DOMAIN it /\ it.unit # <<>>
  THEN NumberToString(it.quantity) \o <<" ">> \o it.unit \o <<" ","o","f"," ">> \o it.name
  ELSE IF "quantity" \in DOMAIN it /\ IsTruthyNumber(it.quantity)
  THEN NumberToString(it.quantity) \o <<" ">> \o it.name
  ELSE it.name

ActionLabel(act) ==
  IF act = "complete" THEN <<"C","h","e","c","k","e","d"," ","o","f","f">>
  ELSE IF act = "uncomplete" THEN <<"U","n","c","h","e","c","k","e","d">>
  ELSE IF act = "remove" THEN <<"R","e","m","o","v","e","d">>
  ELSE <<"A","d","d","e","d">>

\* formatCommandSummary without the action label
formatCommandSummary_ItemsOnly(c) ==
  join([i \in 1..Len(c.items) |-> ItemDescription(c.items[i])], <<","," ">>)

\* formatCommandSummary: the label, a space, the descriptions joined by ', '
formatCommandSummary(c) ==
  ActionLabel(c.action) \o <<" ">>
  \o join([i \in 1..Len(c.items) |-> ItemDescription(c.items[i])], <<","," ">>)

\* formatCommandSummary(command), command being what parseVoiceCommand returned
FormatCommandSummary ==
  /\ pc = "done"
  /\ command # None     \* a call of parseItem alone returns no command
  /\ summary' = formatCommandSummary(command)
  /\ pc' = "summarized"
  /\ UNCHANGED <<transcript, normalized, action, extracted, withoutAction,
                 itemTexts, command, phrase, item, callVars, routeVars, voiceVars>>

Next ==
  \/ Normalize
  \/ DetectAction
  \/ ExtractTargetList
  \/ RemoveActionVerb
  \/ SplitItems
  \/ ParseItems
  \/ FormatCommandSummary

Spec == Init /\ [][Next]_vars

(***************************************************************************)
(* A series of calls of parseVoiceCommand.  The function is synchronous    *)
(* and the program has one thread, so that a call runs from its first      *)
(* statement to its return before the next one starts.                     *)
(***************************************************************************)
MaxCalls == 3

\* transcripts that end in a list clause and differ in the name of the list
\* only: what is spoken before the name, and the names
ClauseBeginnings == {<<"m","i","l","k"," ","t","o"," ","m","y"," ">>, <<"r","e","m","o","v","e"," ","e","g","g","s"," ","o","n"," ","t","h","e"," ">>}

ClauseNames == {<<"c","o","s","t","c","o">>, <<"c","l","e","a","r"," ","o","u","t">>, <<"g","e","t"," ","w","e","l","l">>}

NamedClauseTranscripts ==
  {b \o n \o <<" ","l","i","s","t">> : b \in ClauseBeginnings, n \in ClauseNames}

CallTranscripts ==
  NamedClauseTranscripts \cup
  {<<>>, <<"a","d","d">>, <<"A","d","d"," ","M","i","l","k">>, <<"r","e","m","o","v","e"," ","m","i","l","k"," ","a","n","d"," ","a","d","d"," "," ","e","g","g","s">>,
   <<"c","h","e","c","k"," ","o","f","f"," ","3"," ","c","a","n","s","\n","s","o","u","p"," ","a","n","d"," ","h","a","l","f"," ","a"," ","l","o","a","f"," ","t","o"," ","m","y"," ","C","o","s","t","c","o"," ","l","i","s","t">>}

InitCalls ==
  /\ transcript \in CallTranscripts
  /\ normalized = None
  /\ action = None
  /\ extracted = None
  /\ withoutAction = None
  /\ itemTexts = None
  /\ command = None
  /\ phrase = None
  /\ item = None
  /\ summary = None
  /\ tables = Tables
  /\ calls = 0
  /\ returned = None
  /\ NoRequest
  /\ NoVoice
  /\ pc = "normalize"

\* the return of a call, and the next call
Return ==
  /\ pc = "done"
  /\ calls < MaxCalls
  /\ calls' = calls + 1
  /\ returned' = IF transcript \in DOMAIN returned THEN returned
                 ELSE returned @@ (transcript :> command)
  /\ transcript' \in CallTranscripts
  /\ normalized' = None
  /\ action' = None
  /\ extracted' = None
  /\ withoutAction' = None
  /\ itemTexts' = None
  /\ command' = None
  /\ pc' = "normalize"
  /\ UNCHANGED <<phrase, item, summary, tables, routeVars, voiceVars>>

NextCalls ==
  \/ Normalize
  \/ DetectAction
  \/ ExtractTargetList
  \/ RemoveActionVerb
  \/ SplitItems
  \/ ParseItems
  \/ Return

SpecCalls == InitCalls /\ [][NextCalls]_vars

(***************************************************************************)
(* A call of parseItem on one item phrase.                                 *)
(***************************************************************************)
InitItem ==
  /\ phrase \in Phrases
  /\ item = None
  /\ transcript = None
  /\ normalized = None
  /\ action = None
  /\ extracted = None
  /\ withoutAction = None
  /\ itemTexts = None
  /\ command = None
  /\ summary = None
  /\ tables = Tables
  /\ calls = 0
  /\ returned = None
  /\ NoRequest
  /\ NoVoice
  /\ pc = "parseItem"

\* parseItem(phrase)
ParseItem ==
  /\ pc = "parseItem"
  /\ \E parsed \in {parseItem(tables.QUANTITY_PATTERNS, phrase)} :
       /\ item' = parsed.item
       /\ tables' = [tables EXCEPT !.QUANTITY_PATTERNS = parsed.patterns]
  /\ pc' = IF Threw(item') THEN "threw" ELSE "done"
  /\ UNCHANGED <<phrase, transcript, normalized, action, extracted,
                 withoutAction, itemTexts, command,
                 summary, calls, returned, routeVars, voiceVars>>

NextItem == ParseItem

SpecItem == InitItem /\ [][NextItem]_vars

(***************************************************************************)
(* The route /api/voice-command: POST, addItems, toggleItems, removeItems. *)
(* The store is the two tables the route reads and writes; one request is  *)
(* handled from its arrival to its response, one action per call of the    *)
(* store.                                                                  *)
(***************************************************************************)
\* the characters of /[.,!?;:]+$/
IsTrailingPunctuation(c) == c \in {".", ",", "!", "?", ";", ":"}

RECURSIVE stripTrailingPunctuation(_)
stripTrailingPunctuation(s) ==
  IF s # <<>> /\ IsTrailingPunctuation(s[Len(s)])
  THEN stripTrailingPunctuation(SubSeq(s, 1, Len(s) - 1)) ELSE s

\* transcript.trim().replace(/[.,!?;:]+$/, '')
cleanTranscript(t) == stripTrailingPunctuation(trim(t))

\* the store's ILIKE from position i of the value and j of the pattern:
\* % (written * as well in a filter) stands for any characters, _ for any
\* one character, a backslash takes the next character literally, letters
\* match in either case
RECURSIVE LikeAt(_, _, _, _)
LikeAt(value, i, pattern, j) ==
  IF j > Len(pattern) THEN i > Len(value)
  ELSE IF pattern[j] \in {"%", "*"}
  THEN \E k \in i..(Len(value) + 1) : LikeAt(value, k, pattern, j + 1)
  ELSE IF pattern[j] = "_"
  THEN i <= Len(value) /\ LikeAt(value, i + 1, pattern, j + 1)
  ELSE IF pattern[j] = "\\"
  THEN /\ j < Len(pattern)
       /\ i <= Len(value)
       /\ toLowerCaseChar(value[i]) = toLowerCaseChar(pattern[j + 1])
       /\ LikeAt(value, i + 1, pattern, j + 2)
  ELSE /\ i <= Len(value)
       /\ toLowerCaseChar(value[i]) = toLowerCaseChar(pattern[j])
       /\ LikeAt(value, i + 1, pattern, j + 1)

\* .ilike(column, pattern) on one value of the column
ilike(value, pattern) == LikeAt(value, 1, pattern, 1)

\* the value of a column that is null
Null == <<"null">>

\* .single(): the row when the query has exactly one, no data otherwise
NoData == [data |-> "null"]

single(rows) == IF Cardinality(rows) = 1 THEN CHOOSE r \in rows : TRUE ELSE NoData

\* the list named by command.targetList
NamedList(lists, owner, targetList) ==
  single({l \in lists : /\ l.user_id = owner
                        /\ ilike(l.name, <<"%">> \o targetList \o <<"%">>)})

\* the rows that .order('created_at', { ascending: false }).limit(1) can
\* give for the active lists of the user: the most recently created one,
\* any of them when several were created at the same time
ActiveList(lists, owner) ==
  LET active == {l \in lists : l.user_id = owner /\ l.is_active}
  IN {l \in active : \A m \in active : m.created_at <= l.created_at}

\* the list with the id
ListById(lists, id) == single({l \in lists : l.id = id})

\* the quantity column of addItems, null when it is not set
QuantityStr(it) ==
  IF "quantity" \in DOMAIN it /\ IsTruthyNumber(it.quantity)
     /\ "unit" \in DOMAIN it /\ it.unit # <<>>
  THEN NumberToString(it.quantity) \o <<" ">> \o it.unit
  ELSE IF "quantity" \in DOMAIN it /\ IsTruthyNumber(it.quantity)
          /\ IsGreaterThanOne(it.quantity)
  THEN NumberToString(it.quantity)
  ELSE Null

\* `${count} ${count === 1 ? 'item' : 'items'}`
CountOfItems(n) ==
  NatToString(n) \o (IF n = 1 THEN <<" ","i","t","e","m">> ELSE <<" ","i","t","e","m","s">>)

\* the response of the catch clause for new Error(message)
ErrorResponse(message) == [status |-> 500, error |-> message]

\* the users, the lists and the rows the requests are made on
Users == {<<"u","1">>, <<"u","2">>}

SomeLists ==
  {[id |-> <<"L","1">>, user_id |-> <<"u","1">>, name |-> <<"G","r","o","c","e","r","i","e","s">>,
    is_active |-> TRUE, created_at |-> 2],
   [id |-> <<"L","2">>, user_id |-> <<"u","1">>, name |-> <<"C","o","s","t","c","o">>,
    is_active |-> TRUE, created_at |-> 1],
   [id |-> <<"L","3">>, user_id |-> <<"u","2">>, name |-> <<"C","o","s","t","c","o"," ","R","u","n">>,
    is_active |-> TRUE, created_at |-> 3]}

\* the same with a second list of the first user that has 'Costco' in its
\* name, the newest of all and not active
MoreLists ==
  SomeLists \cup
  {[id |-> <<"L","4">>, user_id |-> <<"u","1">>, name |-> <<"C","o","s","t","c","o"," ","B","u","l","k">>,
    is_active |-> FALSE, created_at |-> 4]}

ListTables == {SomeLists, MoreLists, {l \in SomeLists : l.user_id = <<"u","2">>}}

Row(id, list, owner, name, checked) ==
  [id |-> id, list_id |-> list, user_id |-> owner, name |-> name,
   quantity |-> Null, is_checked |-> checked]

SomeRows ==
  {Row(1, <<"L","1">>, <<"u","1">>, <<"M","i","l","k">>, FALSE), Row(2, <<"L","1">>, <<"u","1">>, <<"m","i","l","k">>, TRUE),
   Row(3, <<"L","1">>, <<"u","1">>, <<"E","g","g","s">>, FALSE), Row(4, <<"L","1">>, <<"u","1">>, <<"C","a","n","d","y">>, TRUE),
   Row(5, <<"L","2">>, <<"u","1">>, <<"M","i","l","k">>, FALSE), Row(6, <<"L","3">>, <<"u","2">>, <<"M","i","l","k">>, FALSE)}

\* a list with the rows of two users
SharedRows ==
  {r \in SomeRows : r.id \in {3, 4}}
    \cup {Row(7, <<"L","1">>, <<"u","2">>, <<"M","i","l","k">>, TRUE)}

ItemTables ==
  {SomeRows, {r \in SomeRows : r.id \in {3, 4, 5, 6}},
   {r \in SomeRows : r.id \in {1, 5}}, SharedRows, {}}

RouteTranscripts ==
  {<<>>, <<"A", "D", "D", " ", "\\u0100", "B", "C", ".">>, <<" ">>, <<"a","d","d"," ","m","i","l","k">>, <<"A","d","d"," ","M","i","l","k","!">>, <<"a","d","d"," ","3"," ","a","p","p","l","e","s">>, <<"a","d","d"," ","o","n","e"," ","c","a","n","d","y">>,
   <<"a","d","d"," ","h","a","l","f"," ","m","i","l","k">>, <<"a","d","d"," ","1","2"," ","e","g","g","s"," ","a","n","d"," ","m","i","l","k">>, <<"a","d","d"," ","0"," ","e","g","g","s">>,
   <<"a","d","d"," ","3"," ","c","a","n","s","\n","s","o","u","p">>, <<"a","d","d"," ","0"," ","l","b","\n","r","i","c","e">>, <<"a","d","d"," ","m","i","l","k"," ","t","o"," ","c","o","s","t","c","o"," ","l","i","s","t">>,
   <<"c","h","e","c","k"," ","o","f","f"," ","m","i","l","k">>, <<"c","h","e","c","k"," ","o","f","f"," ","m","i","l","k"," ","a","n","d"," ","e","g","g","s">>, <<"c","h","e","c","k"," ","o","f","f"," ","b","u","t","t","e","r">>,
   <<"c","h","e","c","k"," ","o","f","f"," ","b","u","t","t","e","r"," ","a","n","d"," ","m","i","l","k">>, <<"g","o","t"," ","M","I","L","K",".">>, <<"c","h","e","c","k"," ","o","f","f"," ","m","i","l","k"," ","o","n"," ","t","h","e"," ","c","o","s","t","c","o"," ","l","i","s","t">>,
   <<"u","n","c","h","e","c","k"," ","m","i","l","k">>, <<"u","n","c","h","e","c","k"," ","c","a","n","d","y"," ","a","n","d"," ","m","i","l","k">>, <<"u","n","c","h","e","c","k"," ","b","u","t","t","e","r">>,
   <<"r","e","m","o","v","e"," ","m","i","l","k">>, <<"r","e","m","o","v","e"," ","b","u","t","t","e","r">>, <<"r","e","m","o","v","e"," ","e","g","g","s"," ","a","n","d"," ","b","u","t","t","e","r">>, <<"r","e","m","o","v","e">>,
   <<"r","e","m","o","v","e"," ","m","i","l","k"," ","a","n","d"," ","m","i","l","k">>, <<"r","e","m","o","v","e"," ","m","i","l","k"," ","t","o"," ","m","y"," ","p","a","n","t","r","y"," ","l","i","s","t">>,
   <<"a","d","d"," ","m","i","l","k"," ","t","o"," ","m","y"," ","g","r","o","c","e","r","i","e","s"," ","l","i","s","t">>, <<"a","d","d"," ","m","i","l","k"," ","t","o"," ","m","y"," ","c","_","s","t","c","o"," ","l","i","s","t">>, <<"a","d","d"," ","m","i","l","k"," ","t","o"," ","m","y"," ","%"," ","l","i","s","t">>, <<"a","d","d"," ","e","g","g","s"," ","t","o"," ","m","y"," ","p","a","n","t","r","y"," ","l","i","s","t">>, <<"c","h","e","c","k"," ","o","f","f"," ","m","i","l","k"," ","o","n"," ","t","h","e"," ","c","o","s","t"," ","l","i","s","t">>,
   <<"r","e","m","o","v","e"," ","m","i","l","k"," ","f","r","o","m"," ","t","h","e"," ","b","u","l","k"," ","l","i","s","t">>, <<"a","d","d"," ","m","i","l","k"," ","t","o"," ","m","y"," ","l","i","s","t">>,
   <<"c","h","e","c","k"," ","o","f","f"," ","m","i","l","k"," ","a","n","d"," ","m","i","l","k">>, <<"u","n","c","h","e","c","k"," ","m","i","l","k"," ","a","n","d"," ","e","g","g","s"," ","a","n","d"," ","m","i","l","k">>,
   <<"r","e","m","o","v","e"," ","%">>, <<"r","e","m","o","v","e"," ","m","_","l","k">>, <<"d","e","l","e","t","e"," ","e","*">>, <<"u","n","c","h","e","c","k"," ","%","i","%">>, <<"c","h","e","c","k"," ","o","f","f"," ","_","i","l","k">>}

ListIds == {<<>>, <<"L","2">>, <<"L","3">>, <<"L","9">>}

InitRoute ==
  /\ NoVoice
  /\ request \in [transcript : RouteTranscripts, listId : ListIds]
  /\ user \in {None, <<"u","1">>}
  /\ storeError \in BOOLEAN
  /\ groceryLists \in ListTables
  /\ listItems \in ItemTables
  /\ itemsBefore = listItems
  /\ targetListId = None
  /\ targetListName = None
  /\ index = 0
  /\ matchingItems = None
  /\ listData = None
  /\ others = 0
  /\ count = 0
  /\ touched = {}
  /\ result = None
  /\ response = None
  /\ transcript = None
  /\ normalized = None
  /\ action = None
  /\ extracted = None
  /\ withoutAction = None
  /\ itemTexts = None
  /\ command = None
  /\ phrase = None
  /\ item = None
  /\ summary = None
  /\ tables = Tables
  /\ calls = 0
  /\ returned = None
  /\ pc = "post"

\* what a request leaves alone whatever it does
routeFrame ==
  <<request, user, storeError, groceryLists, itemsBefore, others, normalized,
    action, extracted, withoutAction, itemTexts, phrase, item, summary,
    callVars, voiceVars>>

\* the request whose transcript is being parsed
Parsing ==
  \/ Normalize
  \/ DetectAction
  \/ ExtractTargetList
  \/ RemoveActionVerb
  \/ SplitItems
  \/ ParseItems

\* POST up to the call parseVoiceCommand(cleanedTranscript), which the
\* actions of parseVoiceCommand carry out and which does not throw
Receive ==
  /\ pc = "post"
  /\ IF request.transcript = <<>>
     THEN /\ response' = [status |-> 400, error |-> <<"N","o"," ","t","r","a","n","s","c","r","i","p","t"," ","p","r","o","v","i","d","e","d">>]
          /\ pc' = "responded"
          /\ UNCHANGED transcript
     ELSE /\ transcript' = cleanTranscript(request.transcript)
          /\ response' = None
          /\ pc' = "normalize"
  /\ UNCHANGED <<routeFrame, listData, touched, command, listItems, targetListId, targetListName,
                 index, matchingItems, count, result>>

\* supabase.auth.getUser()
GetUser ==
  /\ pc = "done"
  /\ request # None
  /\ IF user = None
     THEN /\ response' = [status |-> 401, error |-> <<"U","n","a","u","t","h","o","r","i","z","e","d">>]
          /\ pc' = "responded"
     ELSE /\ pc' = "resolveList"
          /\ response' = None
  /\ UNCHANGED <<routeFrame, listData, touched, transcript, command, listItems, targetListId,
                 targetListName, index, matchingItems, count, result>>

\* ResolveList going on to the default list when no list has the spoken name
ResolveList_FallBack ==
  /\ pc = "resolveList"
  /\ LET named == NamedList(groceryLists, user, command.targetList)
         active == ActiveList(groceryLists, user)
         list == ListById(groceryLists, request.listId)
         Found(l) == /\ targetListId' = l.id
                     /\ targetListName' = l.name
                     /\ response' = None
                     /\ pc' = "execute"
         NotFound(message) ==
                     /\ response' = [status |-> 400, error |-> message]
                     /\ pc' = "responded"
                     /\ UNCHANGED <<targetListId, targetListName>>
     IN IF request.listId = <<>>
        THEN IF /\ "targetList" \in DOMAIN command /\ command.targetList # <<>>
                /\ named # NoData
             THEN Found(named)
             ELSE IF active # {} THEN \E l \in active : Found(l)
                  ELSE NotFound(<<"N","o"," ","a","c","t","i","v","e"," ","s","h","o","p","p","i","n","g"," ","l","i","s","t"," ","f","o","u","n","d","."," ","C","r","e","a","t","e"," ","a"," ","l","i","s","t"," ","f","i","r","s","t","!">>)
        ELSE /\ targetListId' = request.listId
             /\ targetListName' = IF list # NoData THEN list.name ELSE <<>>
             /\ response' = None
             /\ pc' = "execute"
  /\ index' = 1
  /\ count' = 0
  /\ UNCHANGED <<routeFrame, listData, touched, transcript, command, listItems, matchingItems,
                 result>>

\* ResolveList looking for the spoken name before the listId
ResolveList_NameFirst ==
  /\ pc = "resolveList"
  /\ LET named == NamedList(groceryLists, user, command.targetList)
         active == ActiveList(groceryLists, user)
         list == ListById(groceryLists, request.listId)
         Found(l) == /\ targetListId' = l.id
                     /\ targetListName' = l.name
                     /\ response' = None
                     /\ pc' = "execute"
         NotFound(message) ==
                     /\ response' = [status |-> 400, error |-> message]
                     /\ pc' = "responded"
                     /\ UNCHANGED <<targetListId, targetListName>>
     IN IF "targetList" \in DOMAIN command /\ command.targetList # <<>>
        THEN IF named # NoData THEN Found(named)
             ELSE NotFound(<<"C","o","u","l","d"," ","n","o","t"," ","f","i","n","d"," ","a"," ","l","i","s","t"," ","m","a","t","c","h","i","n","g"," ">>)
        ELSE IF request.listId = <<>>
        THEN IF active # {} THEN \E l \in active : Found(l)
             ELSE NotFound(<<"N","o"," ","a","c","t","i","v","e"," ","s","h","o","p","p","i","n","g"," ","l","i","s","t"," ","f","o","u","n","d","."," ","C","r","e","a","t","e"," ","a"," ","l","i","s","t"," ","f","i","r","s","t","!">>)
        ELSE /\ targetListId' = request.listId
             /\ targetListName' = IF list # NoData THEN list.name ELSE <<>>
             /\ response' = None
             /\ pc' = "execute"
  /\ index' = 1
  /\ count' = 0
  /\ UNCHANGED <<routeFrame, listData, touched, transcript, command, listItems, matchingItems,
                 result>>

\* POST, "Determine target list"
ResolveList ==
  /\ pc = "resolveList"
  /\ LET named == NamedList(groceryLists, user, command.targetList)
         active == ActiveList(groceryLists, user)
         list == ListById(groceryLists, request.listId)
         Found(l) == /\ targetListId' = l.id
                     /\ targetListName' = l.name
                     /\ response' = None
                     /\ pc' = "execute"
         NotFound(message) ==
                     /\ response' = [status |-> 400, error |-> message]
                     /\ pc' = "responded"
                     /\ UNCHANGED <<targetListId, targetListName>>
     IN IF request.listId = <<>>
        THEN IF "targetList" \in DOMAIN command /\ command.targetList # <<>>
             THEN IF named # NoData THEN Found(named)
                  ELSE NotFound(<<"C","o","u","l","d"," ","n","o","t"," ","f","i","n","d"," ","a"," ","l","i","s","t"," ","m","a","t","c","h","i","n","g"," ","\"">>
                                \o command.targetList \o <<"\"">>)
             ELSE IF active # {} THEN \E l \in active : Found(l)
                  ELSE NotFound(<<"N","o"," ","a","c","t","i","v","e"," ","s","h","o","p","p","i","n","g"," ","l","i","s","t"," ","f","o","u","n","d","."," ","C","r","e","a","t","e"," ","a"," ","l","i","s","t"," ","f","i","r","s","t","!">>)
        ELSE /\ targetListId' = request.listId
             /\ targetListName' = IF list # NoData THEN list.name ELSE <<>>
             /\ response' = None
             /\ pc' = "execute"
  /\ index' = 1
  /\ count' = 0
  /\ UNCHANGED <<routeFrame, listData, touched, transcript, command, listItems, matchingItems,
                 result>>

\* an id no row of the table has
FreshId(rows, i) ==
  i + (IF rows = {} THEN 0
       ELSE CHOOSE n \in {r.id : r \in rows} : \A r \in rows : r.id <= n)

\* addItems up to its select: the owner of the list
AddItemsSelect ==
  /\ pc = "execute"
  /\ command.action = "add"
  /\ listData' = ListById(groceryLists, targetListId)
  /\ IF listData' = NoData
     THEN /\ response' = ErrorResponse(<<"L","i","s","t"," ","n","o","t"," ","f","o","u","n","d">>)
          /\ pc' = "responded"
     ELSE /\ response' = None
          /\ pc' = "insert"
  /\ UNCHANGED <<routeFrame, touched, transcript, command, listItems, targetListId,
                 targetListName, index, matchingItems, count, result>>

\* addItems from itemsToInsert on: the insert, which the store answers with
\* an error, with the rows it inserted, or with no row and no error
AddItemsInsert ==
  /\ pc = "insert"
  /\ LET itemsToInsert ==
           {[id |-> FreshId(listItems \cup itemsBefore, i),
             list_id |-> targetListId,
             user_id |-> listData.user_id,
             name |-> command.items[i].name,
             quantity |-> QuantityStr(command.items[i]),
             is_checked |-> FALSE] : i \in 1..Len(command.items)}
     IN IF storeError
        THEN /\ response' = ErrorResponse(<<"F","a","i","l","e","d"," ","t","o"," ","a","d","d"," ","i","t","e","m","s",":"," ","s","t","o","r","e"," ","e","r","r","o","r">>)
             /\ pc' = "responded"
             /\ UNCHANGED <<listItems, result>>
        ELSE \E data \in {itemsToInsert, {}} :
               IF data = {}
               THEN /\ response' = ErrorResponse(<<"I","t","e","m","s"," ","w","e","r","e"," ","n","o","t"," ","i","n","s","e","r","t","e","d">>)
                    /\ pc' = "responded"
                    /\ UNCHANGED <<listItems, result>>
               ELSE /\ listItems' = listItems \cup data
                    /\ result' = <<"A","d","d","e","d"," ">> \o CountOfItems(Len(command.items))
                    /\ response' = None
                    /\ pc' = "respond"
  /\ UNCHANGED <<routeFrame, listData, touched, transcript, command, targetListId,
                 targetListName, index, matchingItems, count>>

\* the ids of the rows of the list whose name is like the name of the item
Matching(rows, listId, name) ==
  {r.id : r \in {s \in rows : s.list_id = listId /\ ilike(s.name, name)}}

\* toggleItems, the select of one turn of the loop
ToggleFind ==
  /\ pc = "execute"
  /\ command.action \in {"complete", "uncomplete"}
  /\ index <= Len(command.items)
  /\ matchingItems' = Matching(listItems, targetListId, command.items[index].name)
  /\ IF matchingItems' # {}
     THEN pc' = "update" /\ index' = index
     ELSE pc' = "execute" /\ index' = index + 1
  /\ UNCHANGED <<routeFrame, listData, touched, transcript, command, listItems, targetListId,
                 targetListName, count, result, response>>

\* toggleItems, the update of one turn of the loop
ToggleUpdate ==
  /\ pc = "update"
  /\ IF storeError
     THEN UNCHANGED <<listItems, count, touched>>
     ELSE /\ listItems' =
               {IF r.id \in matchingItems
                THEN [r EXCEPT !.is_checked = (command.action = "complete")]
                ELSE r : r \in listItems}
          /\ count' = count + Cardinality(matchingItems)
          /\ touched' = touched \cup {r.id : r \in {s \in listItems : s.id \in matchingItems}}
  /\ index' = index + 1
  /\ pc' = "execute"
  /\ UNCHANGED <<routeFrame, listData, transcript, command, targetListId,
                 targetListName, matchingItems, result, response>>

\* toggleItems after the loop
ToggleFinish ==
  /\ pc = "execute"
  /\ command.action \in {"complete", "uncomplete"}
  /\ index > Len(command.items)
  /\ IF count = 0
     THEN /\ response' = ErrorResponse(<<"N","o"," ","m","a","t","c","h","i","n","g"," ","i","t","e","m","s"," ","f","o","u","n","d">>)
          /\ pc' = "responded"
          /\ UNCHANGED result
     ELSE /\ result' = (IF command.action = "complete" THEN <<"C","h","e","c","k","e","d"," ","o","f","f"," ">>
                        ELSE <<"U","n","c","h","e","c","k","e","d"," ">>) \o CountOfItems(count)
          /\ response' = None
          /\ pc' = "respond"
  /\ UNCHANGED <<routeFrame, listData, touched, transcript, command, listItems, targetListId,
                 targetListName, index, matchingItems, count>>

\* removeItems, the select of one turn of the loop
RemoveFind ==
  /\ pc = "execute"
  /\ command.action = "remove"
  /\ index <= Len(command.items)
  /\ matchingItems' = Matching(listItems, targetListId, command.items[index].name)
  /\ IF matchingItems' # {}
     THEN pc' = "delete" /\ index' = index
     ELSE pc' = "execute" /\ index' = index + 1
  /\ UNCHANGED <<routeFrame, listData, touched, transcript, command, listItems, targetListId,
                 targetListName, count, result, response>>

\* removeItems, the delete of one turn of the loop
RemoveDelete ==
  /\ pc = "delete"
  /\ IF storeError
     THEN UNCHANGED <<listItems, count, touched>>
     ELSE /\ listItems' = {r \in listItems : r.id \notin matchingItems}
          /\ count' = count + Cardinality(matchingItems)
          /\ touched' = touched \cup {r.id : r \in {s \in listItems : s.id \in matchingItems}}
  /\ index' = index + 1
  /\ pc' = "execute"
  /\ UNCHANGED <<routeFrame, listData, transcript, command, targetListId,
                 targetListName, matchingItems, result, response>>

\* removeItems after the loop
RemoveFinish ==
  /\ pc = "execute"
  /\ command.action = "remove"
  /\ index > Len(command.items)
  /\ IF count = 0
     THEN /\ response' = ErrorResponse(<<"N","o"," ","m","a","t","c","h","i","n","g"," ","i","t","e","m","s"," ","f","o","u","n","d">>)
          /\ pc' = "responded"
          /\ UNCHANGED result
     ELSE /\ result' = <<"R","e","m","o","v","e","d"," ">> \o CountOfItems(count)
          /\ response' = None
          /\ pc' = "respond"
  /\ UNCHANGED <<routeFrame, listData, touched, transcript, command, listItems, targetListId,
                 targetListName, index, matchingItems, count>>

\* POST after the switch: the message and the response
Respond ==
  /\ pc = "respond"
  /\ response' =
       [status |-> 200,
        success |-> TRUE,
        message |-> IF targetListName # <<>>
                    THEN result \o <<" ","t","o"," ">> \o <<"\"">> \o targetListName
                         \o <<"\"">>
                    ELSE result,
        command |-> formatCommandSummary(command)]
  /\ pc' = "responded"
  /\ UNCHANGED <<routeFrame, listData, touched, transcript, command, listItems, targetListId,
                 targetListName, index, matchingItems, count, result>>

NextRoute ==
  \/ Receive
  \/ Parsing
  \/ GetUser
  \/ ResolveList
  \/ AddItemsSelect
  \/ AddItemsInsert
  \/ ToggleFind
  \/ ToggleUpdate
  \/ ToggleFinish
  \/ RemoveFind
  \/ RemoveDelete
  \/ RemoveFinish
  \/ Respond

SpecRoute == InitRoute /\ [][NextRoute]_vars

(***************************************************************************)
(* A request and the writes of other requests.  POST and the functions it  *)
(* calls await every answer of the store: between two of its statements    *)
(* the statements of other requests reach the store, those of another      *)
(* /api/voice-command, of /api/items and of the server actions.  A write   *)
(* that arrives before the first read of this request is a different       *)
(* table in InitRace.                                                      *)
(***************************************************************************)
\* the number of writes of other requests that meet one request
MaxOtherWrites == 1

\* the requests that meet the writes of another request
RaceTranscripts ==
  {<<"a","d","d"," ","m","i","l","k">>, <<"c","h","e","c","k"," ","o","f","f"," ","m","i","l","k">>, <<"c","h","e","c","k"," ","o","f","f"," ","m","i","l","k"," ","a","n","d"," ","m","i","l","k">>, <<"c","h","e","c","k"," ","o","f","f"," ","m","i","l","k"," ","a","n","d"," ","e","g","g","s">>,
   <<"u","n","c","h","e","c","k"," ","c","a","n","d","y"," ","a","n","d"," ","m","i","l","k">>, <<"r","e","m","o","v","e"," ","m","i","l","k">>, <<"r","e","m","o","v","e"," ","m","i","l","k"," ","a","n","d"," ","m","i","l","k">>,
   <<"r","e","m","o","v","e"," ","e","g","g","s"," ","a","n","d"," ","b","u","t","t","e","r">>, <<"c","h","e","c","k"," ","o","f","f"," ","b","u","t","t","e","r">>,
   <<"a","d","d"," ","m","i","l","k"," ","t","o"," ","m","y"," ","c","o","s","t","c","o"," ","l","i","s","t">>, <<"c","h","e","c","k"," ","o","f","f"," ","m","i","l","k"," ","o","n"," ","t","h","e"," ","c","o","s","t","c","o"," ","l","i","s","t">>}

\* the names of items, the patterns of names and the names of lists that the
\* other requests send
OtherNames == {<<"M","i","l","k">>, <<"B","u","t","t","e","r">>}

OtherPatterns == {<<"m","i","l","k">>, <<"e","g","g","s">>, <<"%">>}

OtherListNames == {<<"C","o","s","t","c","o">>, <<"P","a","n","t","r","y">>}

OtherQuantities == {Null, <<"2">>}

InitRace ==
  /\ InitRoute
  /\ request.transcript \in RaceTranscripts
  /\ request.listId = <<>>
  /\ user # None
  /\ groceryLists = SomeLists

\* what the write of another request leaves alone
raceFrame ==
  <<request, user, storeError, itemsBefore, normalized, action, extracted,
    withoutAction, itemTexts, phrase, item, summary, callVars, voiceVars,
    touched, transcript, command, targetListId, targetListName, index,
    matchingItems, listData, count, result, response, pc>>

\* this request waits for an answer of the store and has a statement for the
\* store to come: getUser, the query of a list, the select and the insert of
\* addItems, the select and the update or delete of a turn of the loops
BetweenAwaits ==
  /\ request # None
  /\ others < MaxOtherWrites
  /\ \/ pc \in {"done", "resolveList", "insert", "update", "delete"}
     \/ pc = "execute" /\ (command.action = "add" \/ index <= Len(command.items))

\* the rows another request found by name in a list
OtherMatching(l, n) == {r \in listItems : r.list_id = l /\ ilike(r.name, n)}

\* .delete().in('id', ids) of removeItems in another request: the rows of
\* a list with a name like the pattern, of every name for the pattern '%'
OtherRemove ==
  /\ BetweenAwaits
  /\ \E l \in {r.list_id : r \in listItems} : \E n \in OtherPatterns :
       /\ OtherMatching(l, n) # {}
       /\ listItems' = listItems \ OtherMatching(l, n)
  /\ others' = others + 1
  /\ UNCHANGED <<groceryLists, raceFrame>>

\* DELETE /api/items?id= and deleteListItem: the row with the id
OtherDeleteItem ==
  /\ BetweenAwaits
  /\ \E r \in listItems : listItems' = listItems \ {r}
  /\ others' = others + 1
  /\ UNCHANGED <<groceryLists, raceFrame>>

\* clearCheckedItems with access by list_shares (part_007): every checked
\* row of a list
OtherClearCheckedOfList ==
  /\ BetweenAwaits
  /\ \E l \in {r.list_id : r \in listItems} :
       LET checked == {r \in listItems : r.list_id = l /\ r.is_checked}
       IN /\ checked # {}
          /\ listItems' = listItems \ checked
  /\ others' = others + 1
  /\ UNCHANGED <<groceryLists, raceFrame>>

\* clearCheckedItems with .eq('user_id', user.id) (part_006): the checked
\* rows of a list that are the caller's
OtherClearChecked ==
  /\ BetweenAwaits
  /\ \E l \in {r.list_id : r \in listItems} : \E u \in Users :
       LET checked == {r \in listItems :
                         r.list_id = l /\ r.user_id = u /\ r.is_checked}
       IN /\ checked # {}
          /\ listItems' = listItems \ checked
  /\ others' = others + 1
  /\ UNCHANGED <<groceryLists, raceFrame>>

\* .update({ is_checked: checked }).in('id', ids) of toggleItems in another
\* request
OtherToggle ==
  /\ BetweenAwaits
  /\ \E l \in {r.list_id : r \in listItems} : \E n \in OtherPatterns :
     \E checked \in BOOLEAN :
       /\ listItems' =
            {IF s \in OtherMatching(l, n)
             THEN [s EXCEPT !.is_checked = checked] ELSE s : s \in listItems}
       /\ listItems' # listItems
  /\ others' = others + 1
  /\ UNCHANGED <<groceryLists, raceFrame>>

\* PATCH /api/items and toggleItemChecked: is_checked of the row with the id
OtherToggleItem ==
  /\ BetweenAwaits
  /\ \E r \in listItems :
       listItems' = (listItems \ {r}) \cup {[r EXCEPT !.is_checked = ~r.is_checked]}
  /\ others' = others + 1
  /\ UNCHANGED <<groceryLists, raceFrame>>

\* updateListItem: the name and the quantity of the row with the id
OtherUpdateItem ==
  /\ BetweenAwaits
  /\ \E r \in listItems : \E n \in OtherNames : \E q \in OtherQuantities :
       /\ <<n, q>> # <<r.name, r.quantity>>
       /\ listItems' =
            (listItems \ {r}) \cup {[r EXCEPT !.name = n, !.quantity = q]}
  /\ others' = others + 1
  /\ UNCHANGED <<groceryLists, raceFrame>>

\* the insert of addItems in another request, of POST /api/items and of
\* addListItem: one unchecked row in a list, the caller's or the owner's
OtherInsert ==
  /\ BetweenAwaits
  /\ \E l \in groceryLists : \E u \in Users : \E n \in OtherNames :
     \E q \in OtherQuantities :
       listItems' = listItems \cup
         {[id |-> FreshId(listItems \cup itemsBefore, 1), list_id |-> l.id,
           user_id |-> u, name |-> n, quantity |-> q, is_checked |-> FALSE]}
  /\ others' = others + 1
  /\ UNCHANGED <<groceryLists, raceFrame>>

\* the ids of the lists that are created
NewListIds == {<<"L","5">>, <<"L","6">>, <<"L","7">>}

\* createGroceryList: a list of the caller, the newest; is_active is the
\* default of the column, which the table gives and the function does not
OtherCreateList ==
  /\ BetweenAwaits
  /\ \E u \in Users : \E n \in OtherListNames : \E active \in BOOLEAN :
       LET id == CHOOSE i \in NewListIds : \A l \in groceryLists : l.id # i
           newest == CHOOSE t \in {l.created_at : l \in groceryLists} \cup {0} :
                       \A l \in groceryLists : l.created_at <= t
       IN groceryLists' = groceryLists \cup
            {[id |-> id, user_id |-> u, name |-> n, is_active |-> active,
              created_at |-> newest + 1]}
  /\ others' = others + 1
  /\ UNCHANGED <<listItems, raceFrame>>

\* updateGroceryList: the name of the list with the id
OtherRenameList ==
  /\ BetweenAwaits
  /\ \E l \in groceryLists : \E n \in OtherListNames :
       /\ n # l.name
       /\ groceryLists' = (groceryLists \ {l}) \cup {[l EXCEPT !.name = n]}
  /\ others' = others + 1
  /\ UNCHANGED <<listItems, raceFrame>>

\* deleteGroceryList: the list with the id; whether its rows go with it is
\* the table's choice (on delete cascade), which the function does not make
OtherDeleteList ==
  /\ BetweenAwaits
  /\ \E l \in groceryLists : \E cascade \in BOOLEAN :
       /\ groceryLists' = groceryLists \ {l}
       /\ listItems' = IF cascade THEN {r \in listItems : r.list_id # l.id}
                       ELSE listItems
  /\ others' = others + 1
  /\ UNCHANGED raceFrame

\* toggleListActive: is_active of the list with the id
OtherToggleActive ==
  /\ BetweenAwaits
  /\ \E l \in groceryLists :
       groceryLists' =
         (groceryLists \ {l}) \cup {[l EXCEPT !.is_active = ~l.is_active]}
  /\ others' = others + 1
  /\ UNCHANGED <<listItems, raceFrame>>

\* the write of another request
OtherWrite ==
  \/ OtherRemove
  \/ OtherDeleteItem
  \/ OtherClearChecked
  \/ OtherClearCheckedOfList
  \/ OtherToggle
  \/ OtherToggleItem
  \/ OtherUpdateItem
  \/ OtherInsert
  \/ OtherCreateList
  \/ OtherRenameList
  \/ OtherDeleteList
  \/ OtherToggleActive

NextRace ==
  \/ NextRoute
  \/ OtherWrite

SpecRace == InitRace /\ [][NextRace]_vars

(***************************************************************************)
(* VoiceInput (src/app/dashboard/components/VoiceInput.tsx): the button,   *)
(* the handlers of its SpeechRecognition, its fetch and its timers, one    *)
(* action per handler.  The component is mounted with a listId that does   *)
(* not change, as the dashboard mounts it.  A session of the recognition   *)
(* goes from start() to its end event: the start event, then at most one   *)
(* result (continuous is false) or one error, then the end event.  Time is *)
(* not measured: a timer that is set runs at any later moment.             *)
(***************************************************************************)
MaxSessions == 3

\* what the recognition hears, and what event.error can be
Results == {"add milk", "check off eggs"}

RecognitionErrors == {"aborted", "no-speech", "not-allowed", "network"}

\* what the fetch and response.json() give: the status and the body of a
\* response, or the error of a fetch that failed
Responses ==
  {[ok |-> TRUE, message |-> "Added 1 item"], [ok |-> TRUE, message |-> ""],
   [ok |-> FALSE, error |-> "No matching items found"], [ok |-> FALSE, error |-> ""],
   [threw |-> "Failed to fetch"]}

\* the variables VoiceInput leaves alone
voiceFrame ==
  <<transcript, normalized, action, extracted, withoutAction, itemTexts,
    command, phrase, item, summary, callVars, routeVars, pc>>

InitVoice ==
  /\ NoVoice
  /\ NoRequest
  /\ transcript = None
  /\ normalized = None
  /\ action = None
  /\ extracted = None
  /\ withoutAction = None
  /\ itemTexts = None
  /\ command = None
  /\ phrase = None
  /\ item = None
  /\ summary = None
  /\ tables = Tables
  /\ calls = 0
  /\ returned = None
  /\ pc = "mounted"

\* recognition.stop(): the session under way is asked to end
stop(r) ==
  IF r.phase \in {"starting", "started"} THEN [r EXCEPT !.stopping = TRUE] ELSE r

\* if (timeoutRef.current) { clearTimeout(timeoutRef.current); timeoutRef.current = null }
ClearTimeout == timeoutRef' = "null"

\* startListening without the test of state
startListening_AnyState ==
  /\ state \notin {"listening", "processing"}
  /\ session < MaxSessions
  /\ IF recognition.phase = "inactive"
     THEN /\ recognition' = [phase |-> "starting", stopping |-> FALSE]
          /\ session' = session + 1
     ELSE UNCHANGED <<recognition, session>>
  /\ UNCHANGED <<state, heard, feedback, timeoutRef, fetches, resets, shown,
                 voiceFrame>>

\* a tap on the button when it calls startListening: the button is enabled
\* and state is not 'listening'.  recognition.start() throws when a session
\* is under way, and the exception is caught.
startListening ==
  /\ state \notin {"listening", "processing"}
  /\ session < MaxSessions
  /\ IF state = "idle" /\ recognition.phase = "inactive"
     THEN /\ recognition' = [phase |-> "starting", stopping |-> FALSE]
          /\ session' = session + 1
     ELSE UNCHANGED <<recognition, session>>
  /\ UNCHANGED <<state, heard, feedback, timeoutRef, fetches, resets, shown,
                 voiceFrame>>

\* a tap on the button when it calls stopListening: the timer is cleared
\* and recognition.stop() is called.  When stop() throws, the catch block
\* sets the state to idle and clears the feedback, and the session is not
\* stopped
stopListening ==
  /\ state = "listening"
  /\ ClearTimeout
  /\ \E threw \in BOOLEAN :
       IF threw
       THEN /\ state' = "idle"
            /\ feedback' = ""
            /\ UNCHANGED recognition
       ELSE /\ recognition' = stop(recognition)
            /\ UNCHANGED <<state, feedback>>
  /\ UNCHANGED <<heard, fetches, resets, session, shown, voiceFrame>>

\* recognition.onstart
onstart ==
  /\ recognition.phase = "starting"
  /\ recognition' = [recognition EXCEPT !.phase = "started"]
  /\ state' = "listening"
  /\ heard' = ""
  /\ feedback' = "Listening..."
  /\ timeoutRef' = "pending"
  /\ shown' = session
  /\ UNCHANGED <<fetches, resets, session, voiceFrame>>

\* the timer of onstart, after 10 seconds; nothing catches an exception of
\* recognition.stop() here, and nothing else follows the call
AutoStop ==
  /\ timeoutRef = "pending"
  /\ timeoutRef' = "fired"
  /\ \E threw \in BOOLEAN :
       recognition' = IF threw THEN recognition ELSE stop(recognition)
  /\ UNCHANGED <<state, heard, feedback, fetches, resets, session, shown,
                 voiceFrame>>

\* recognition.onresult up to the await of fetch
onresult ==
  /\ recognition.phase = "started"
  /\ recognition' = [recognition EXCEPT !.phase = "ending"]
  /\ ClearTimeout
  /\ \E r \in Results : heard' = r
  /\ state' = "processing"
  /\ feedback' = "Processing..."
  /\ fetches' = fetches \cup {session}
  /\ shown' = session
  /\ UNCHANGED <<resets, session, voiceFrame>>

\* recognition.onresult after the awaits: the response is there, or the
\* fetch failed
FetchCompletes ==
  \E s \in fetches : \E r \in Responses :
    /\ fetches' = fetches \ {s}
    /\ IF "ok" \in DOMAIN r /\ r.ok
       THEN /\ state' = "success"
            /\ feedback' = IF r.message # "" THEN r.message ELSE "Done!"
            /\ resets' = resets \cup {[session |-> s, delay |-> 3000, from |-> "success"]}
       ELSE /\ state' = "error"
            /\ feedback' = IF "threw" \in DOMAIN r THEN r.threw
                           ELSE IF r.error # "" THEN r.error
                           ELSE "Failed to process command"
            /\ resets' = resets \cup {[session |-> s, delay |-> 5000, from |-> "catch"]}
    /\ shown' = s
    /\ UNCHANGED <<heard, recognition, timeoutRef, session, voiceFrame>>

\* recognition.onerror
onerror ==
  /\ recognition.phase \in {"starting", "started"}
  /\ recognition' = [recognition EXCEPT !.phase = "ending"]
  /\ \E e \in RecognitionErrors :
       IF e = "aborted"
       THEN /\ state' = "idle"
            /\ feedback' = ""
            /\ UNCHANGED resets
       ELSE /\ state' = "error"
            /\ feedback' = (CASE e = "no-speech" -> "I didn't hear anything"
                              [] e = "not-allowed" -> "Microphone access denied"
                              [] OTHER -> "Voice recognition failed")
            /\ resets' = resets \cup {[session |-> session, delay |-> 3000, from |-> "onerror"]}
  /\ shown' = session
  /\ UNCHANGED <<heard, timeoutRef, fetches, session, voiceFrame>>

\* onend setting the state to idle whatever it is
onend_AlwaysIdle ==
  /\ recognition.phase # "inactive"
  /\ recognition' = [phase |-> "inactive", stopping |-> FALSE]
  /\ ClearTimeout
  /\ state' = "idle"
  /\ feedback' = ""
  /\ UNCHANGED <<heard, fetches, resets, session, shown, voiceFrame>>

\* recognition.onend
onend ==
  /\ recognition.phase # "inactive"
  /\ recognition' = [phase |-> "inactive", stopping |-> FALSE]
  /\ ClearTimeout
  /\ state' = IF state = "listening" THEN "idle" ELSE state
  /\ feedback' = IF state = "listening" THEN "" ELSE feedback
  /\ UNCHANGED <<heard, fetches, resets, session, shown, voiceFrame>>

\* a reset timer runs: after 3 seconds of success, 5 of a failed command,
\* 3 of a recognition error
Reset ==
  \E t \in resets :
    /\ resets' = resets \ {t}
    /\ state' = "idle"
    /\ heard' = IF t.from = "onerror" THEN heard ELSE ""
    /\ feedback' = ""
    /\ shown' = t.session
    /\ UNCHANGED <<recognition, timeoutRef, fetches, session, voiceFrame>>

NextVoice ==
  \/ startListening
  \/ stopListening
  \/ onstart
  \/ AutoStop
  \/ onresult
  \/ FetchCompletes
  \/ onerror
  \/ onend
  \/ Reset

SpecVoice == InitVoice /\ [][NextVoice]_vars

\* the same when the fetch completes, the timers run and the end event of a
\* session is fired
SpecVoiceLive ==
  /\ SpecVoice
  /\ WF_vars(FetchCompletes)
  /\ WF_vars(Reset)
  /\ WF_vars(onend)

(***************************************************************************)
(* The claims.                                                             *)
(***************************************************************************)
Actions == {"add", "complete", "uncomplete", "remove"}

HasQuantity(it) == "quantity" \in DOMAIN it
HasUnit(it) == "unit" \in DOMAIN it
HasTargetList(c) == "targetList" \in DOMAIN c

IsString(s) == DOMAIN s = 1..Len(s)

IsParsedItem(it) ==
  /\ {"name", "originalText"} \subseteq DOMAIN it
  /\ DOMAIN it \subseteq {"name", "quantity", "unit", "originalText"}
  /\ IsString(it.name)
  /\ IsString(it.originalText)

IsParsedCommand(c) ==
  /\ {"action", "items", "raw"} \subseteq DOMAIN c
  /\ DOMAIN c \subseteq {"action", "items", "targetList", "raw"}
  /\ c.action \in Actions
  /\ \A i \in 1..Len(c.items) : IsParsedItem(c.items[i])

\* C1: no call of parseVoiceCommand throws, whatever the transcript (the
\* empty string, whitespace only and punctuation only included), and the
\* value returned is a ParsedCommand whose raw is the transcript.
C1_NeverThrows ==
  /\ pc # "threw"
  /\ pc = "done" => IsParsedCommand(command) /\ command.raw = transcript

C1_Witness ==
  /\ pc = "done"
  /\ transcript = <<"!","?",".">>
  /\ command.action = "add"
  /\ Len(command.items) = 1
  /\ command.items[1].name = <<"!","?",".">>

\* the verbs of the categories listed before the category of verb
EarlierVerbs(verb) ==
  UNION {Range(ACTION_VERBS[a].verbs) :
           a \in {b \in 1..Len(ACTION_VERBS) :
                    \A c \in 1..b : ~InSeq(verb, ACTION_VERBS[c].verbs)}}

\* C2 as stated: a transcript that begins with a verb of the table has the
\* category of that verb as action, whatever words follow the verb.
C2_Original ==
  pc = "done" =>
    \A v \in AllVerbs :
      startsWith(normalized, v) => command.action = CategoryOf(v)

\* C2, amended: a transcript that begins with a verb of the table, and that
\* neither begins with nor contains between two spaces a verb of a category
\* listed earlier in the table, has the category of that verb as action.
C2_StartingVerbDecides ==
  pc = "done" =>
    \A v \in AllVerbs :
      /\ startsWith(normalized, v)
      /\ \A w \in EarlierVerbs(v) :
           /\ ~startsWith(normalized, w)
           /\ ~includes(normalized, <<" ">> \o w \o <<" ">>)
      => command.action = CategoryOf(v)

C2_Witness ==
  /\ pc = "done"
  /\ transcript = <<"c","h","e","c","k"," ","o","f","f"," ","m","i","l","k"," ","a","n","d"," ","r","e","m","o","v","e"," ","e","g","g","s">>
  /\ command.action = "complete"

\* C3: a verb of the table followed by a plain item name gives the category
\* of the verb and exactly one item, named by the capitalized name, with no
\* quantity, no unit and no targetList.
C3_VerbThenName ==
  pc = "done" =>
    \A v \in AllVerbs, n \in PlainNames :
      transcript = v \o <<" ">> \o n =>
        /\ command.action = CategoryOf(v)
        /\ Len(command.items) = 1
        /\ command.items[1].name = Written(n)
        /\ ~HasQuantity(command.items[1])
        /\ ~HasUnit(command.items[1])
        /\ ~HasTargetList(command)

NoVerb(text) ==
  \A v \in AllVerbs :
    ~startsWith(text, v) /\ ~includes(text, <<" ">> \o v \o <<" ">>)

\* C4: a transcript that neither starts with a verb of the table nor
\* contains one between two spaces has action add, and the action of every
\* command is one of add, complete, uncomplete, remove.
C4_DefaultAdd ==
  /\ pc \notin {"normalize", "detectAction"} =>
       /\ action \in Actions
       /\ NoVerb(normalized) => action = "add"
  /\ pc = "done" => command.action = action

C4_Witness ==
  /\ pc = "done"
  /\ transcript = <<"s","a","n","d","w","i","c","h"," ","a","n","d"," ","c","a","n","d","y">>
  /\ NoVerb(normalized)
  /\ command.action = "add"

\* whether t is the names joined, in their order, by separators
RECURSIVE IsJoined(_, _)
IsJoined(t, names) ==
  IF Len(names) = 1 THEN t = names[1]
  ELSE \E s \in Separators \cup {<<",">>} :
         /\ startsWith(t, names[1] \o s)
         /\ IsJoined(slice(t, Len(names[1]) + Len(s)), Tail(names))

\* C5: k >= 1 plain item names joined by any mix of ',', ' and ' and
\* ', and ', alone or after the verb add, give exactly k items, in the
\* spoken order, each named by its capitalized name.
C5_SplitKeepsOrder ==
  pc = "done" =>
    \A k \in 1..MaxItems :
      \A names \in [1..k -> PlainNames] :
        IsJoined(transcript, names) \/ IsJoined(transcript, <<<<"a","d","d"," ">> \o names[1]>> \o Tail(names))
        => /\ Len(command.items) = k
           /\ \A i \in 1..k : command.items[i].name = Written(names[i])

C5_Witness ==
  /\ pc = "done"
  /\ transcript = <<"m","i","l","k",","," ","e","g","g","s",","," ","a","n","d"," ","c","a","n","d","y">>
  /\ Len(command.items) = 3
  /\ command.items[1].name = <<"M","i","l","k">>
  /\ command.items[2].name = <<"E","g","g","s">>
  /\ command.items[3].name = <<"C","a","n","d","y">>

\* the value of a spoken number
SpokenNumbers ==
  {<<<<"o","n","e">>, Number(1, 1)>>, <<<<"t","w","o">>, Number(2, 1)>>, <<<<"t","h","r","e","e">>, Number(3, 1)>>,
   <<<<"f","o","u","r">>, Number(4, 1)>>, <<<<"f","i","v","e">>, Number(5, 1)>>, <<<<"s","i","x">>, Number(6, 1)>>,
   <<<<"s","e","v","e","n">>, Number(7, 1)>>, <<<<"e","i","g","h","t">>, Number(8, 1)>>,
   <<<<"n","i","n","e">>, Number(9, 1)>>, <<<<"t","e","n">>, Number(10, 1)>>,
   <<<<"e","l","e","v","e","n">>, Number(11, 1)>>, <<<<"t","w","e","l","v","e">>, Number(12, 1)>>,
   <<<<"h","a","l","f">>, Number(1, 2)>>, <<<<"q","u","a","r","t","e","r">>, Number(1, 4)>>}

\* the whole number that decimal digits write
DecimalValue(s) ==
  LET digits == StripZeros([i \in 1..Len(s) |-> DigitValue[s[i]]])
  IN IF Len(digits) <= FewDigits THEN Number(SmallValue(digits), 1)
     ELSE Large(1, digits)

ValueOf(q) ==
  IF \E p \in SpokenNumbers : p[1] = q
  THEN (CHOOSE p \in SpokenNumbers : p[1] = q)[2]
  ELSE DecimalValue(q)

ItemReturned == pc = "done" /\ item # None

\* C6: a number (digits or one..ten), a unit token, an optional 'of' and a
\* rest give the number as quantity, the unit token as unit and the
\* capitalized rest as name.
C6_QuantityUnitName ==
  ItemReturned =>
    \A q \in Numerals \cup Range(NumberWordsToTen) :
      startsWith(phrase, q \o <<" ">>) =>
        \A u \in Range(UnitTokens), n \in MeasuredNames :
          \/ phrase = q \o <<" ">> \o u \o <<" ">> \o n
          \/ phrase = q \o <<" ">> \o u \o <<" ","o","f"," ">> \o n
          => /\ HasQuantity(item) /\ item.quantity = ValueOf(q)
             /\ HasUnit(item) /\ item.unit = u
             /\ item.name = Written(n)

\* rests of more than one line, each with its capitalized form
TwoLineNames ==
  {<<<<"p", "a", "p", "e", "r", "\r", "t", "o", "w", "e", "l", "s">>, <<"P", "a", "p", "e", "r", "\r", "t", "o", "w", "e", "l", "s">>>>,
   <<<<"p","a","p","e","r","\n","t","o","w","e","l","s">>, <<"P","a","p","e","r","\n","t","o","w","e","l","s">>>>, <<<<"m","i","l","k","\n","s","h","a","k","e">>, <<"M","i","l","k","\n","s","h","a","k","e">>>>}

\* C7 as stated: a quantity token, whitespace and any rest that begins with
\* no unit token give the value of the token as quantity, the capitalized
\* rest as name and no unit.
C7_Original ==
  ItemReturned =>
    \A q \in QuantityTokens, n \in TwoLineNames :
      phrase = q \o <<" ">> \o n[1] =>
        /\ HasQuantity(item) /\ item.quantity = ValueOf(q)
        /\ ~HasUnit(item)
        /\ item.name = n[2]

\* 2^53, up to which a double holds every whole number
LargestHeld == <<9,0,0,7,1,9,9,2,5,4,7,4,0,9,9,2>>

\* whether a quantity token is a number word or a numeral of value at most 2^53
IsHeldExactly(q) ==
  \/ InSeq(q, TEXT_TO_NUMBER_KEYS)
  \/ LET digits == StripZeros([i \in 1..Len(q) |-> DigitValue[q[i]]])
     IN \/ Len(digits) < Len(LargestHeld)
        \/ Len(digits) = Len(LargestHeld) /\ ~Less(LargestHeld, digits)

\* C7, amended: a quantity token (digits of value at most 2^53, one..twelve,
\* half, quarter), whitespace and a rest of one line that begins with no unit
\* token give the value of the token as quantity, the capitalized rest as
\* name and no unit; a phrase with no leading quantity token gives its
\* capitalized self as name and neither quantity nor unit.
C7_QuantityThenName ==
  ItemReturned =>
    /\ \A q \in {k \in QuantityTokens : IsHeldExactly(k)} :
         startsWith(phrase, q) =>
           \A g \in Gaps, n \in PlainNames :
             phrase = q \o g \o n =>
               /\ HasQuantity(item) /\ item.quantity = ValueOf(q)
               /\ ~HasUnit(item)
               /\ item.name = Written(n)
    /\ phrase \in PlainNames =>
         /\ item.name = Written(phrase)
         /\ ~HasQuantity(item)
         /\ ~HasUnit(item)
    /\ \A p \in UnquantifiedPhrases :
         phrase = p[1] =>
           /\ item.name = p[2]
           /\ ~HasQuantity(item)
           /\ ~HasUnit(item)

C7_Witness ==
  /\ ItemReturned
  /\ phrase = <<"q","u","a","r","t","e","r"," ","p","a","p","e","r"," ","t","o","w","e","l","s">>
  /\ item.quantity = Number(1, 4)
  /\ item.name = <<"P","a","p","e","r"," ","T","o","w","e","l","s">>
  /\ ~HasUnit(item)

\* the index of the first trailing pattern that matches, 0 when none does
FirstListPattern(text) ==
  IF \E i \in 1..Len(LIST_PATTERNS) : match(text, LIST_PATTERNS[i]).ok
  THEN CHOOSE i \in 1..Len(LIST_PATTERNS) :
         /\ match(text, LIST_PATTERNS[i]).ok
         /\ \A j \in 1..(i - 1) : ~match(text, LIST_PATTERNS[j]).ok
  ELSE 0

NamedListPatterns == {3, 4, 5}

GenericNames == {<<"s","h","o","p","p","i","n","g">>, <<"g","r","o","c","e","r","y">>}

\* the beginnings of the clauses that the named-list patterns match first
\* for the list name n
NamedBeginnings(n) ==
  IF n \in GenericNames THEN {<<" ","t","o"," ">>, <<" ","o","n"," ","m","y"," ">>, <<" ","o","n"," ","t","h","e"," ">>}
  ELSE {<<" ","t","o"," ","m","y"," ">>, <<" ","t","o"," ","t","h","e"," ">>, <<" ","t","o"," ">>, <<" ","o","n"," ","m","y"," ">>, <<" ","o","n"," ","t","h","e"," ">>}

ItemNames(c) == [i \in 1..Len(c.items) |-> c.items[i].name]

\* C8 as stated: when the first trailing pattern that matches is a named-list
\* pattern, targetList is the captured name, trimmed and lowercased, and the
\* items are parsed from the text without the clause.
C8_Original ==
  pc = "done" =>
    /\ LET i == FirstListPattern(normalized)
           m == match(normalized, LIST_PATTERNS[i])
       IN i \in NamedListPatterns =>
            /\ HasTargetList(command)
            /\ command.targetList = toLowerCase(trim(m.caps[1]))
            /\ extracted.text = trim(SubSeq(normalized, 1, m.start - 1))
    /\ \A h \in Heads, n \in ListNames :
         \A b \in NamedBeginnings(n) :
           transcript = h[1] \o b \o n \o <<" ","l","i","s","t">> =>
             /\ HasTargetList(command)
             /\ command.targetList = n
             /\ ItemNames(command) = h[2]

\* C8, amended: when the first trailing pattern that matches is a named-list
\* pattern, targetList is the captured name, trimmed and lowercased, unless
\* that name is 'shopping' or 'grocery', and then targetList is unset; in
\* both cases the items are parsed from the text without the clause.
C8_NamedList ==
  pc = "done" =>
    /\ LET i == FirstListPattern(normalized)
           m == match(normalized, LIST_PATTERNS[i])
           name == toLowerCase(trim(m.caps[1]))
       IN i \in NamedListPatterns =>
            /\ name \notin GenericNames =>
                 HasTargetList(command) /\ command.targetList = name
            /\ name \in GenericNames => ~HasTargetList(command)
            /\ extracted.text = trim(SubSeq(normalized, 1, m.start - 1))
    /\ \A h \in Heads, n \in ListNames :
         \A b \in NamedBeginnings(n) :
           transcript = h[1] \o b \o n \o <<" ","l","i","s","t">> =>
             /\ n \notin GenericNames =>
                  HasTargetList(command) /\ command.targetList = n
             /\ n \in GenericNames => ~HasTargetList(command)
             /\ ItemNames(command) = h[2]

C8_Witness ==
  /\ pc = "done"
  /\ transcript = <<"a","d","d"," ","m","i","l","k"," ","t","o"," ","c","o","s","t","c","o"," ","l","i","s","t">>
  /\ FirstListPattern(normalized) = 4
  /\ command.targetList = <<"c","o","s","t","c","o">>
  /\ ItemNames(command) = <<<<"M","i","l","k">>>>

GenericClauses ==
  {<<"t","o"," ","m","y"," ","s","h","o","p","p","i","n","g"," ","l","i","s","t">>, <<"t","o"," ","m","y"," ","g","r","o","c","e","r","y"," ","l","i","s","t">>, <<"t","o"," ","t","h","e"," ","s","h","o","p","p","i","n","g"," ","l","i","s","t">>,
   <<"t","o"," ","t","h","e"," ","g","r","o","c","e","r","y"," ","l","i","s","t">>}

endsWith(s, sub) ==
  Len(sub) <= Len(s) /\ HasAt(s, Len(s) - Len(sub) + 1, sub)

\* the text before its last k characters
Before(s, k) == SubSeq(s, 1, Len(s) - k)

\* whether the text ends with the words of clause g: g is the whole text or
\* follows whitespace
EndsWithClause(text, g) ==
  /\ endsWith(text, g)
  /\ \/ Len(text) = Len(g)
     \/ IsWhitespace(text[Len(text) - Len(g)])

\* C9 as stated: a text that ends with one of the four generic clauses
\* leaves targetList unset and the items are parsed from the text without
\* the clause.
C9_Original ==
  pc = "done" =>
    \A g \in GenericClauses :
      EndsWithClause(normalized, g) =>
        /\ ~HasTargetList(command)
        /\ extracted.text = trim(Before(normalized, Len(g)))

\* C9, amended: a text that ends with whitespace followed by one of the four
\* generic clauses leaves targetList unset and the items are parsed from the
\* text without the clause: 'add milk to my shopping list' gives the single
\* item Milk.
C9_GenericList ==
  pc = "done" =>
    /\ \A g \in GenericClauses :
         /\ EndsWithClause(normalized, g)
         /\ Len(normalized) > Len(g)
         => /\ ~HasTargetList(command)
            /\ extracted.text = trim(Before(normalized, Len(g)))
    /\ \A h \in Heads, g \in GenericClauses :
         transcript = h[1] \o <<" ">> \o g =>
           ~HasTargetList(command) /\ ItemNames(command) = h[2]

C9_Witness ==
  /\ pc = "done"
  /\ transcript = <<"a","d","d"," ","m","i","l","k"," ","t","o"," ","m","y"," ","s","h","o","p","p","i","n","g"," ","l","i","s","t">>
  /\ ~HasTargetList(command)
  /\ extracted.text = <<"a","d","d"," ","m","i","l","k">>
  /\ ItemNames(command) = <<<<"M","i","l","k">>>>

\* C10: the items of every command returned have at least one element.
C10_AtLeastOneItem == pc = "done" => Len(command.items) >= 1

C10_Witness ==
  /\ pc = "done"
  /\ transcript = <<","," ",",">>
  /\ itemTexts = <<<<","," ",",">>>>
  /\ Len(command.items) = 1

(***************************************************************************)
(* Invariants of the items returned.                                       *)
(***************************************************************************)
\* C11: for every transcript that is non-empty after trimming, every item
\* returned by parseVoiceCommand has a name that is non-empty after trimming.
C11_NameNeverEmpty ==
  pc = "done" /\ trim(transcript) # <<>> =>
    \A i \in 1..Len(command.items) : trim(command.items[i].name) # <<>>

\* whether the number q is strictly greater than 0
IsPositive(q) == IF IsLarge(q) THEN q.sign > 0 ELSE q.num > 0

\* C12: whenever an item returned by parseVoiceCommand carries a quantity,
\* that quantity is strictly greater than 0.
C12_QuantityPositive ==
  pc = "done" =>
    \A i \in 1..Len(command.items) :
      HasQuantity(command.items[i]) => IsPositive(command.items[i].quantity)

\* C13: in every item returned by parseVoiceCommand, if unit is present
\* then quantity is present.
C13_UnitImpliesQuantity ==
  pc = "done" =>
    \A i \in 1..Len(command.items) :
      HasUnit(command.items[i]) => HasQuantity(command.items[i])

C13_Witness ==
  /\ pc = "done"
  /\ transcript = <<"a","d","d"," ","3"," ","c","a","n","s","\n","s","o","u","p">>
  /\ Len(command.items) = 1
  /\ HasUnit(command.items[1]) /\ command.items[1].unit = <<"c","a","n","s">>
  /\ HasQuantity(command.items[1]) /\ command.items[1].quantity = Number(3, 1)
  /\ command.items[1].name = <<"S","o","u","p">>

(***************************************************************************)
(* The summary of a command.                                               *)
(***************************************************************************)
\* the label the claim gives each action
LabelOf(act) ==
  CASE act = "add" -> <<"A","d","d","e","d">>
    [] act = "complete" -> <<"C","h","e","c","k","e","d"," ","o","f","f">>
    [] act = "uncomplete" -> <<"U","n","c","h","e","c","k","e","d">>
    [] act = "remove" -> <<"R","e","m","o","v","e","d">>

\* the rendering the claim gives an item, by the fields that are present
Rendered(it) ==
  IF HasQuantity(it) /\ HasUnit(it)
  THEN NumberToString(it.quantity) \o <<" ">> \o it.unit \o <<" ","o","f"," ">> \o it.name
  ELSE IF HasQuantity(it)
  THEN NumberToString(it.quantity) \o <<" ">> \o it.name
  ELSE it.name

\* transcripts with the summary the claim gives them
SummaryExamples ==
  {<<<<"a","d","d"," ","3"," ","a","p","p","l","e","s">>, <<"A","d","d","e","d"," ","3"," ","A","p","p","l","e","s">>>>,
   <<<<"c","h","e","c","k"," ","o","f","f"," ","h","a","l","f"," ","a"," ","p","o","u","n","d"," ","o","f"," ","b","u","t","t","e","r">>, <<"C","h","e","c","k","e","d"," ","o","f","f"," ","0",".","5"," ","A"," ","P","o","u","n","d"," ","O","f"," ","B","u","t","t","e","r">>>>,
   <<<<"q","u","a","r","t","e","r"," ","c","u","p"," ","s","u","g","a","r",","," ","t","w","o"," ","a","p","p","l","e","s">>, <<"A","d","d","e","d"," ","0",".","2","5"," ","C","u","p"," ","S","u","g","a","r",","," ","2"," ","A","p","p","l","e","s">>>>,
   <<<<"r","e","m","o","v","e"," ","t","w","o"," ","p","o","u","n","d","s","\n","o","f"," ","c","h","i","c","k","e","n"," ","a","n","d"," ","3"," ","c","a","n","s"," ","o","f"," ","s","o","u","p">>,
     <<"R","e","m","o","v","e","d"," ","2"," ","p","o","u","n","d","s"," ","o","f"," ","C","h","i","c","k","e","n",","," ","3"," ","C","a","n","s"," ","O","f"," ","S","o","u","p">>>>,
   <<<<"u","n","c","h","e","c","k"," ","m","i","l","k">>, <<"U","n","c","h","e","c","k","e","d"," ","M","i","l","k">>>>,
   <<<<"a","d","d"," ","1","2"," ","e","g","g","s"," ","a","n","d"," ","m","i","l","k">>, <<"A","d","d","e","d"," ","1","2"," ","E","g","g","s",","," ","M","i","l","k">>>>,
   <<<<"a","d","d"," ","0"," ","e","g","g","s">>, <<"A","d","d","e","d"," ","0"," ","E","g","g","s">>>>}

\* C14: the summary of a returned command is the action label, a space and
\* the item descriptions in item order joined by ', ': '<qty> <unit> of
\* <name>' for an item with quantity and unit, '<qty> <name>' for an item
\* with a quantity and no unit, '<name>' for an item with no quantity.
C14_SummaryFormat ==
  pc = "summarized" =>
    /\ summary = LabelOf(command.action) \o <<" ">>
                 \o join([i \in 1..Len(command.items) |->
                            Rendered(command.items[i])], <<","," ">>)
    /\ \A e \in SummaryExamples : transcript = e[1] => summary = e[2]

\* C15: for every non-empty transcript the summary of the parsed command is
\* a non-empty string.
C15_SummaryNonEmpty ==
  pc = "summarized" /\ transcript # <<>> =>
    IsString(summary) /\ summary # <<>>

C15_Witness ==
  /\ pc = "summarized"
  /\ transcript = <<"a","d","d">>
  /\ command.items[1].name = <<>>
  /\ summary = <<"A","d","d","e","d"," ">>

(***************************************************************************)
(* A series of calls.                                                      *)
(***************************************************************************)
\* C16: after any sequence of earlier calls, a call on a transcript returns
\* the same action, items, targetList and raw as the first call on it, and
\* no call modifies the verb, pattern or number tables: the verbs, the
\* entries of TEXT_TO_NUMBER and the source, flags and lastIndex of every
\* pattern object are as the module created them.
C16_DependsOnArgumentOnly ==
  /\ tables = Tables
  /\ pc = "done" /\ transcript \in DOMAIN returned =>
       command = returned[transcript]

\* the third call repeats an earlier one after a call on another transcript;
\* two of its items matched a quantity pattern
C16_Witness ==
  /\ pc = "done"
  /\ calls = 2
  /\ transcript = <<"c","h","e","c","k"," ","o","f","f"," ","3"," ","c","a","n","s","\n","s","o","u","p"," ","a","n","d"," ","h","a","l","f"," ","a"," ","l","o","a","f"," ","t","o"," ","m","y"," ","C","o","s","t","c","o"," ","l","i","s","t">>
  /\ DOMAIN returned = {transcript, <<"A","d","d"," ","M","i","l","k">>}
  /\ command = returned[transcript]
  /\ command.action = "complete"
  /\ command.items[1].unit = <<"c","a","n","s">>
  /\ command.items[2].quantity = Number(1, 2)
  /\ tables.QUANTITY_PATTERNS[4].lastIndex = 0

(***************************************************************************)
(* The order of the verb table.                                            *)
(***************************************************************************)
\* the categories in the order the claim gives
CategoryOrder == <<"add", "complete", "uncomplete", "remove">>

RankOf(category) == CHOOSE i \in 1..Len(CategoryOrder) : CategoryOrder[i] = category

\* whether the text starts with the verb or contains it between two spaces
Occurs(text, verb) ==
  startsWith(text, verb) \/ includes(text, <<" ">> \o verb \o <<" ">>)

\* the categories that have a verb occurring in the text
CategoriesIn(text) == {CategoryOf(v) : v \in {w \in AllVerbs : Occurs(text, w)}}

\* C20: the action is the category listed first (add, complete, uncomplete,
\* remove) among the categories with a verb that the text starts with or
\* contains between spaces, wherever in the transcript the verbs occur: of
\* '<v> milk and <w> eggs' and '<w> milk and <v> eggs' both get the same
\* category.
C20_FirstCategoryWins ==
  pc = "done" =>
    /\ \A c \in CategoriesIn(normalized) :
         (\A d \in CategoriesIn(normalized) : RankOf(c) <= RankOf(d))
         => command.action = c
    /\ \A v \in AllVerbs, w \in AllVerbs :
         transcript = v \o <<" ","m","i","l","k"," ","a","n","d"," ">> \o w \o <<" ","e","g","g","s">> =>
           command.action =
             IF RankOf(CategoryOf(v)) <= RankOf(CategoryOf(w))
             THEN CategoryOf(v) ELSE CategoryOf(w)

C20_Witness ==
  /\ pc = "done"
  /\ transcript = <<"t","a","k","e"," ","o","f","f"," ","m","i","l","k"," ","a","n","d"," ","g","r","a","b"," ","e","g","g","s">>
  /\ CategoriesIn(normalized) = {"remove", "add"}
  /\ command.action = "add"

(***************************************************************************)
(* The route.                                                              *)
(***************************************************************************)
\* the request has been answered
Responded == pc = "responded"

\* the request has been answered with success
Succeeded == Responded /\ response.status = 200

\* the quantity string the claim gives an item, by the fields present
ExpectedQuantity(it) ==
  IF HasQuantity(it) /\ HasUnit(it)
  THEN NumberToString(it.quantity) \o <<" ">> \o it.unit
  ELSE IF HasQuantity(it) /\ IsGreaterThanOne(it.quantity)
  THEN NumberToString(it.quantity)
  ELSE Null

\* whether the rows are one row per item of the command, in list listId
OneRowPerItem(rows, items, listId) ==
  \E f \in [1..Len(items) -> rows] :
    /\ \A r \in rows : \E i \in 1..Len(items) : f[i] = r
    /\ \A i, j \in 1..Len(items) : f[i] = f[j] => i = j
    /\ \A i \in 1..Len(items) :
         /\ f[i].list_id = listId
         /\ f[i].name = items[i].name
         /\ f[i].quantity = ExpectedQuantity(items[i])
         /\ f[i].is_checked = FALSE

\* C17: an add request that succeeds has inserted one unchecked row per
\* parsed item into the resolved list, each with the quantity string
\* '<quantity> <unit>' when quantity and unit are present, else '<quantity>'
\* when quantity is greater than 1, else null, and has left the other rows
\* as they were; an add request that fails has inserted nothing.
C17_AddStoresItems ==
  Responded /\ command # None /\ command.action = "add" =>
    IF response.status = 200
    THEN /\ itemsBefore \subseteq listItems
         /\ OneRowPerItem(listItems \ itemsBefore, command.items, targetListId)
    ELSE listItems = itemsBefore

\* the request changes the rows that are there: complete, uncomplete, remove
Changes == command # None /\ command.action \in {"complete", "uncomplete", "remove"}

\* whether the name of the row equals the name of a parsed item, ignoring
\* letter case
NamedByCommand(r) ==
  \E i \in 1..Len(command.items) :
    toLowerCase(r.name) = toLowerCase(command.items[i].name)

\* whether the row is in the table as it was when the request arrived
Untouched(r) == r \in listItems

\* whether the row is affected as the action says
Affected(r) ==
  CASE command.action = "complete" ->
         [r EXCEPT !.is_checked = TRUE] \in listItems
    [] command.action = "uncomplete" ->
         [r EXCEPT !.is_checked = FALSE] \in listItems
    [] command.action = "remove" ->
         \A s \in listItems : s.id # r.id

\* C18: when a complete, uncomplete or remove request is answered, every row
\* of the resolved list whose name equals a parsed item's name ignoring
\* letter case has been affected (checked, unchecked, deleted), duplicates
\* included, provided the store carried out its writes; the rows of other
\* lists and the rows of the resolved list that no parsed name equals are
\* as they were, and no row has been added.
C18_MatchingRowsOnly ==
  Responded /\ Changes =>
    /\ \A r \in itemsBefore :
         IF r.list_id = targetListId /\ NamedByCommand(r)
         THEN ~storeError => Affected(r)
         ELSE Untouched(r)
    /\ {r.id : r \in listItems} \subseteq {r.id : r \in itemsBefore}

\* whether the store matches the row of the resolved list with a parsed item
MatchedByCommand(r) ==
  /\ r.list_id = targetListId
  /\ \E i \in 1..Len(command.items) : ilike(r.name, command.items[i].name)

\* the characters a store pattern does not take literally
IsWildcard(c) == c \in {"%", "*", "_", "\\"}

\* C19: a complete, uncomplete or remove request of a signed-in user on a
\* resolved list, none of whose parsed names matches a row of the list, is
\* answered with the error 'No matching items found' and leaves the store as
\* it was; when at least one parsed name matches a row, the request
\* succeeds, also when other parsed names match nothing.  A name matches a
\* row as the store's ILIKE says.
C19_NoMatchIsAnError ==
  Responded /\ Changes /\ targetListId # None =>
    IF \E r \in itemsBefore : MatchedByCommand(r)
    THEN Succeeded
    ELSE /\ response = ErrorResponse(<<"N","o"," ","m","a","t","c","h","i","n","g"," ","i","t","e","m","s"," ","f","o","u","n","d">>)
         /\ listItems = itemsBefore

(***************************************************************************)
(* The separators of splitItems.                                           *)
(***************************************************************************)
\* whether the word 'and' stands at position p of text with whitespace on
\* both sides
IsSeparatingAnd(text, p) ==
  /\ p > 1 /\ p + 3 <= Len(text)
  /\ IsWhitespace(text[p - 1])
  /\ toLowerCase(SubSeq(text, p, p + 2)) = <<"a","n","d">>
  /\ IsWhitespace(text[p + 3])

\* the positions of text inside such a word
InSeparatingAnd(text) ==
  {q \in 1..Len(text) :
     \E p \in 1..Len(text) : IsSeparatingAnd(text, p) /\ q \in p..(p + 2)}

\* the pieces of text between its commas and its separating 'and's, trimmed,
\* the empty ones left out
PiecesBetweenSeparators(text) ==
  LET marked == [q \in 1..Len(text) |->
                   IF q \in InSeparatingAnd(text) THEN "," ELSE text[q]]
      pieces == split(marked, ",")
  IN filterNonEmpty([i \in 1..Len(pieces) |-> trim(pieces[i])])

\* C21: splitItems treats every 'and' that has whitespace on both sides in
\* its input as a separator: the item phrases it returns are the pieces
\* between the commas and those 'and's, so that no phrase contains, begins
\* with or ends with such an 'and', consecutive ones included.
C21_EveryAndSeparates ==
  itemTexts # None /\ InSeparatingAnd(withoutAction) # {} =>
    itemTexts = PiecesBetweenSeparators(withoutAction)

(***************************************************************************)
(* The list a request is applied to.                                       *)
(***************************************************************************)
\* the request carries a listId
HasListId == request.listId # <<>>

\* the transcript names a list
SpokenList == command # None /\ HasTargetList(command) /\ command.targetList # <<>>

\* the lists of the user whose name holds the fragment, ignoring letter case
ListsHolding(fragment) ==
  {l \in groceryLists : /\ l.user_id = user
                        /\ includes(toLowerCase(l.name), toLowerCase(fragment))}

\* the lists of the user the store finds for the spoken name
ListsMatching(fragment) ==
  {l \in groceryLists : /\ l.user_id = user
                        /\ ilike(l.name, <<"%">> \o fragment \o <<"%">>)}

\* the most recently created active lists of the user
DefaultLists ==
  {l \in groceryLists :
     /\ l.user_id = user /\ l.is_active
     /\ \A m \in groceryLists :
          m.user_id = user /\ m.is_active => m.created_at <= l.created_at}

\* the rows added, changed or deleted since the request arrived
ChangedRows == (listItems \ itemsBefore) \cup (itemsBefore \ listItems)

\* the answer that no list has the spoken name
CouldNotFind ==
  /\ Responded
  /\ response.status = 400
  /\ startsWith(response.error, <<"C","o","u","l","d"," ","n","o","t"," ","f","i","n","d"," ","a"," ","l","i","s","t"," ","m","a","t","c","h","i","n","g">>)

\* C22: with an explicit listId the command is applied to that list and the
\* list name spoken in the transcript is ignored; the spoken name chooses the
\* list only when there is no listId, and the default list (the most recently
\* created active list of the user) is chosen only when there is neither.
C22_ListIdFirst ==
  /\ targetListId = None => ChangedRows = {}
  /\ targetListId # None =>
       /\ \A r \in ChangedRows : r.list_id = targetListId
       /\ IF HasListId THEN targetListId = request.listId
          ELSE IF SpokenList
          THEN targetListId \in {l.id : l \in ListsMatching(command.targetList)}
          ELSE targetListId \in {l.id : l \in DefaultLists}
  /\ HasListId => ~CouldNotFind

\* a request with a listId whose transcript names another list of the user
\* has added its item to the list of the listId
C22_Witness ==
  /\ Succeeded
  /\ request.listId = <<"L","2">>
  /\ SpokenList
  /\ command.targetList = <<"g","r","o","c","e","r","i","e","s">>
  /\ \E r \in ChangedRows : r.list_id = <<"L","2">> /\ r.name = <<"M","i","l","k">>

\* the request went past the check of the user, has no listId and names a list
NamesList == user # None /\ ~HasListId /\ SpokenList

\* `Could not find a list matching "${command.targetList}"`
CouldNotFindMessage(targetList) ==
  <<"C","o","u","l","d"," ","n","o","t"," ","f","i","n","d"," ","a"," ","l","i","s","t"," ","m","a","t","c","h","i","n","g"," ">> \o <<"\"">> \o targetList \o <<"\"">>

\* C23: a request with no listId whose transcript names a list that matches
\* none of the lists of the user is answered with 'Could not find a list
\* matching ...'; it is never applied to the default list, and no row of any
\* list is added, changed or deleted.  A name with none of the characters
\* % * _ \ matches a list exactly when the name of the list holds it,
\* ignoring letter case.
C23_UnknownListFails ==
  /\ NamesList /\ ListsMatching(command.targetList) = {} =>
       /\ targetListId = None
       /\ ChangedRows = {}
       /\ pc \in {"done", "resolveList", "responded"}
       /\ Responded =>
            response = [status |-> 400,
                        error |-> CouldNotFindMessage(command.targetList)]
  /\ NamesList /\ (\A k \in 1..Len(command.targetList) :
                     ~IsWildcard(command.targetList[k])) =>
       ListsMatching(command.targetList) = ListsHolding(command.targetList)

\* 'add eggs to my pantry list' from a user who has a default list and no
\* list named pantry has been answered
C23_Witness ==
  /\ Responded
  /\ NamesList
  /\ command.targetList = <<"p","a","n","t","r","y">>
  /\ command.action = "add"
  /\ DefaultLists # {}
  /\ CouldNotFind

\* C27: a request with no listId whose spoken list name is held, ignoring
\* letter case, by the name of at least one list of the user is applied to
\* one of the lists that hold it: it is not answered with 'Could not find a
\* list', and it goes to no other list, also when several lists of the user
\* hold the name.
C27_MatchingListChosen ==
  /\ NamesList
  /\ ListsHolding(command.targetList) # {}
  /\ pc \notin {"done", "resolveList"}
  => /\ ~CouldNotFind
     /\ targetListId \in {l.id : l \in ListsHolding(command.targetList)}
     /\ \A r \in ChangedRows : r.list_id = targetListId

(***************************************************************************)
(* The verb removed by removeActionVerb.                                   *)
(***************************************************************************)
\* whether the verb stands as whole words at the start of text: followed by
\* whitespace or by the end of text
WholeWordsAtStart(text, verb) ==
  /\ startsWith(text, verb)
  /\ Len(text) = Len(verb) \/ IsWhitespace(text[Len(verb) + 1])

\* transcripts that begin with a longer word whose leading letters are a
\* verb, with the name of their first item
LongerWords ==
  {<<<<"n","e","e","d","l","e","s">>, <<"N","e","e","d","l","e","s">>>>, <<<<"a","d","d","r","e","s","s"," ","l","a","b","e","l","s">>, <<"A","d","d","r","e","s","s"," ","L","a","b","e","l","s">>>>,
   <<<<"m","a","r","k","e","r"," ","p","e","n","s">>, <<"M","a","r","k","e","r"," ","P","e","n","s">>>>}

\* C24: removeActionVerb removes a verb only when it stands as whole words at
\* the start of the text; when the text begins with a longer word that has a
\* verb as its leading letters ('needles', 'address labels', 'marker pens')
\* no character is removed and the name of the first item is that whole word,
\* capitalized.
C24_WholeVerbOnly ==
  /\ withoutAction # None =>
       \/ withoutAction = extracted.text
       \/ \E v \in AllVerbs :
            /\ WholeWordsAtStart(extracted.text, v)
            /\ withoutAction = trim(slice(extracted.text, Len(v)))
  /\ pc = "done" /\ command # None =>
       \A w \in LongerWords :
         transcript = w[1] => command.items[1].name = w[2]

(***************************************************************************)
(* The list clause without a name.                                         *)
(***************************************************************************)
\* the list clauses that name no list
NamelessClauses == {<<" ","t","o"," ","m","y"," ","l","i","s","t">>, <<" ","t","o"," ","t","h","e"," ","l","i","s","t">>}

\* C25: a transcript that ends in a list clause without a list name
\* ('... to my list', '... to the list') leaves targetList unset, and
\* targetList is never the bare word 'my' or 'the'.
C25_NoBareArticle ==
  pc = "done" /\ command # None =>
    /\ HasTargetList(command) => command.targetList \notin {<<"m","y">>, <<"t","h","e">>}
    /\ \A c \in NamelessClauses :
         endsWith(normalized, c) => ~HasTargetList(command)

(***************************************************************************)
(* The name of the list and the rest of the command.                       *)
(***************************************************************************)
\* whether two transcripts differ at most in the name inside their trailing
\* list clause
SameButListName(t1, t2) ==
  \E b \in ClauseBeginnings : \E n1, n2 \in ClauseNames :
    /\ t1 = b \o n1 \o <<" ","l","i","s","t">>
    /\ t2 = b \o n2 \o <<" ","l","i","s","t">>

\* C26: the action and the items do not depend on the list name: two
\* transcripts that differ only in the name inside a trailing
\* 'to/on ... <name> list' clause give the same action and the same items.
C26_ListNameIndependent ==
  \A t1 \in DOMAIN returned : \A t2 \in DOMAIN returned :
    SameButListName(t1, t2) =>
      /\ returned[t1].action = returned[t2].action
      /\ returned[t1].items = returned[t2].items

(***************************************************************************)
(* The count of the message.                                               *)
(***************************************************************************)
\* the result of a request that changed n rows
CountResult(act, n) ==
  (CASE act = "complete" -> <<"C","h","e","c","k","e","d"," ","o","f","f"," ">>
     [] act = "uncomplete" -> <<"U","n","c","h","e","c","k","e","d"," ">>
     [] act = "remove" -> <<"R","e","m","o","v","e","d"," ">>)
  \o CountOfItems(n)

\* C28: the count in the success message of a complete, uncomplete or remove
\* request is the number of distinct rows that the request changed or
\* deleted, also when a name occurs twice in the command and when another
\* request deletes or changes the matching rows between the lookup of this
\* request and its update or delete.
C28_CountIsRowsChanged ==
  Succeeded /\ Changes =>
    LET counted == CountResult(command.action, Cardinality(touched))
    IN \/ response.message = counted
       \/ response.message =
            counted \o <<" ","t","o"," ","\"">> \o targetListName \o <<"\"">>

(***************************************************************************)
(* VoiceInput.                                                             *)
(***************************************************************************)
\* at most one transcript is being sent, by the most recent session and
\* shown as processing; a state other than idle was set by a handler of the
\* most recent session; the state is 'listening' only while that session is
\* listening; and while it is listening the state is 'listening', or idle
\* after a tap whose recognition.stop() threw, which cleared the timer
OneSessionShown ==
  /\ Cardinality(fetches) <= 1
  /\ fetches # {} => fetches = {session} /\ state = "processing"
  /\ state # "idle" => shown = session
  /\ state = "listening" => recognition.phase = "started"
  /\ recognition.phase = "started" =>
       \/ state = "listening"
       \/ state = "idle" /\ timeoutRef = "null" /\ shown = session

\* a step that starts a session is taken in the state idle, with no fetch
\* and no timer of an earlier session left
StartsWhenIdle ==
  session' # session =>
    /\ state = "idle"
    /\ recognition.phase = "inactive"
    /\ fetches = {}
    /\ resets = {}
    /\ timeoutRef # "pending"

\* C29: VoiceInput starts a recognition session only when its state is idle:
\* in the states listening, processing, success and error a tap starts no
\* second session, so that at most one transcript is being sent to
\* /api/voice-command at any time and the state shown belongs to the most
\* recent session.
C29_OneSession == []OneSessionShown /\ [][StartsWhenIdle]_vars

\* a second session is listening after the first one was answered and reset
C29_Witness ==
  /\ session = 2
  /\ state = "listening"
  /\ recognition.phase = "started"
  /\ heard = ""
  /\ resets = {}

\* what a step does to a state that is not listening: processing is left
\* for success or error only, success is left for idle by its reset after 3
\* seconds only, and error by its reset after 3 or 5 seconds only
LeftInOrder ==
  /\ state = "processing" => state' \in {"processing", "success", "error"}
  /\ state = "success" /\ state' # "success" =>
       /\ state' = "idle"
       /\ \E t \in resets : resets' = resets \ {t} /\ t.delay = 3000
  /\ state = "error" /\ state' # "error" =>
       /\ state' = "idle"
       /\ \E t \in resets : resets' = resets \ {t} /\ t.delay \in {3000, 5000}

\* C30: when the fetch completes, the timers run and the end event is fired,
\* VoiceInput returns to idle from every state: listening ends in idle or,
\* with a result, in processing; processing moves to success or error;
\* success and error return to idle by their reset; and the end event moves
\* no processing, success or error state to idle.
C30_ReturnsToIdle ==
  /\ (state # "idle") ~> (state = "idle")
  /\ (state = "listening") ~> (state \in {"idle", "processing", "error"})
  /\ (state = "processing") ~> (state \in {"success", "error"})
  /\ [][LeftInOrder]_vars

\* the end event has been fired after a result and the state is still
\* success, with its reset to come
C30_Witness ==
  /\ state = "success"
  /\ recognition.phase = "inactive"
  /\ \E t \in resets : t.delay = 3000 /\ t.session = session

====
